---- MODULE Spec2Model ----
(***************************************************************************)
(* Frame dispatch and driver lifecycle of asimov-camera-module.            *)
(*                                                                         *)
(* Threads: the dispatcher worker (Dispatcher::new), the thread that owns  *)
(* the Camera (open_camera, add_sink, start, stop, drop), the reader       *)
(* thread of the ffmpeg driver (the one backend that submits frames        *)
(* through try_send_frame), its monitor thread and a consumer of           *)
(* Camera::events().                                                       *)
(***************************************************************************)
EXTENDS Naturals, Integers, Sequences, FiniteSets, TLC

\* ------------------------------------------------------------------ bounds
\* Frames the ffmpeg child can produce in one behaviour.
MaxFrames == 3
\* Largest CameraConfig.buffer_frames tried.
MaxBuffer == 2
\* Sinks that can be registered in one behaviour.
MaxSinks == 2
\* Capacity of the event channel in the model (open_camera creates it with
\* 128 slots; Dispatcher::new takes any sender).
EventCap == 2
\* u32 is modelled with this many bits, usize with as many or twice as many
U32Bits == 5
MaxHeight == 2
\* producer threads holding a clone of the frame sender
MaxProducers == 2
\* calls of the C ABI that reach the driver
MaxTouch == 5

VARIABLES
    build,          \* [os, feats]: target_os and the enabled cargo features
    buffer_frames,  \* CameraConfig.buffer_frames
    diagnostics,    \* CameraConfig.diagnostics
    config,         \* CameraConfig: [width, height]
    open_r,         \* what open_camera returned: "none" | "Ok" | a CameraError
    cam,            \* "unopened" | "open" | "nodriver" | "openfailed" | "dropped"
    backend,        \* CameraBackend of the camera, "none" before open_camera
    created,        \* what open_camera has created: subset of Resources
    built,          \* the backends open_camera built a dispatcher and a driver
                    \* for, in order
    queue,          \* the frame channel: Seq of FrameMsg
    rxAlive,        \* the worker still owns the Receiver<FrameMsg>
    txAlive,        \* some SyncSender<FrameMsg> clone still exists
    sinks,          \* Dispatcher.sinks
    stop,           \* Dispatcher.stop
    join,           \* Dispatcher.join: "None" | "Some"
    wpc,            \* position of the worker thread
    cur,            \* message of the dispatch cycle in progress, or NoMsg
    idx,            \* position in the sink list within the cycle
    held,           \* the Frame values the sinks of this cycle were given,
                    \* each as its sink has it now
    events,         \* the event channel
    child,          \* FfmpegCameraDriver.child: "None" | "Running" | "Exited"
    ff_stop,        \* FfmpegCameraDriver.stop
    rpc,            \* position of the ffmpeg reader thread
    rframe,         \* frame the reader holds (0: none)
    mpc,            \* position of the ffmpeg monitor thread
    nextFrame,      \* next frame id the child writes
    live,           \* [child, reader, monitor]: ffmpeg processes spawned and not
                    \* yet reaped by stop_child, reader and monitor threads
                    \* spawned and not yet joined
    ppc,            \* producer thread -> its position in try_send_frame
    pframe,         \* producer thread -> the frame it submits (0: none)
    as_r,           \* the last driver_as / driver_as_mut call: << >> or
                    \* << T, "Some" | "None" >>
    handle,         \* the Box<AsimovCameraHandle>: "none" | "live" | "freed"
    out_slot,       \* the caller's *out_handle: "unwritten" | "handle"
    ffi_r,          \* the last C-ABI call: << >> or << function, argument, result >>
    touched,        \* calls of the C ABI that reached the AvfCameraDriver
    cpc,            \* position of the thread that owns the Camera
    dropping,       \* the running stop() was called by Drop for Camera
    drv_r,          \* `r`, what the last driver.stop() returned: "Ok" | "Err"
    \* history, read only by the properties
    outcome,        \* frame -> result of frame_tx.try_send
    evres,          \* frame -> fate of the event its submission emitted
    log,            \* sink -> frames it was invoked with, in order
    taken,          \* frames the worker received, in order
    regAt,          \* sink -> Len(taken) when add_sink returned
    nDrop,          \* FrameDropped events placed on the event channel
    nClosed,        \* Error(Closed) events placed on the event channel
    stopped,        \* a Camera::stop() (or the drop) has returned
    ret,            \* what the last Camera::stop() returned, "none" before
    session,        \* the driver's capture session: "None" | "Some" | "Running"
    start_r,        \* the driver's last start(): "none" | "Ok" | a CameraError
    afterFlag,      \* dispatch cycles the running worker has begun with the stop
                    \* flag set (0 once it has exited)
    frozen,         \* `log` when the first stop() returned
    frame,          \* a Frame: [pixel_format, width, height, stride, len]
    usize_bits,     \* width of usize on the target
    valid           \* what Frame::validate returned: "none" | "true" | "false"

vars == << build, buffer_frames, cam, backend, created, queue, rxAlive, txAlive,
           sinks, stop, join, wpc, cur, idx, events, child, ff_stop, rpc, rframe,
           mpc, nextFrame, cpc, dropping, drv_r, outcome, evres, log, taken,
           regAt, nDrop, nClosed, stopped, ret, frozen, session, start_r,
           diagnostics, open_r, frame, usize_bits, valid, config, held, built, ppc, pframe, as_r, handle, out_slot, ffi_r,
          touched, live, afterFlag >>

\* ------------------------------------------------------------- data types
Frames == 1..MaxFrames
SinkIds == 1..MaxSinks
Producers == 1..MaxProducers
Resources == {"events", "frames", "worker"}
TargetOs == {"android", "ios", "macos", "windows", "linux", "other"}
Features == {"android", "avf", "dshow", "v4l2", "ffmpeg"}
AllBuilds == [os : TargetOs, feats : SUBSET Features]

Min(a, b) == IF a < b THEN a ELSE b
Max(a, b) == IF a > b THEN a ELSE b

\* FrameMsg values. n is a ghost field: Len(sinks) when the frame was
\* submitted, read only by the properties.
FrameMsg(f, n) == [t |-> "Frame", f |-> f, n |-> n]
StopMsg == [t |-> "Stop", f |-> 0, n |-> 0]
NoMsg == [t |-> "None", f |-> 0, n |-> 0]

\* CameraEvent values
Ev(kind, b) == [kind |-> kind, backend |-> b, error |-> "-"]
ErrEv(b, e) == [kind |-> "Error", backend |-> b, error |-> e]

\* ------------------------------------------------------- pure operators
\* cfg_if chain of open_camera: the first branch whose cfg holds.
SelectBackend(b) ==
    IF "android" \in b.feats /\ b.os = "android" THEN "Android"
    ELSE IF "avf" \in b.feats /\ b.os \in {"ios", "macos"} THEN "Avf"
    ELSE IF "dshow" \in b.feats /\ b.os = "windows" THEN "Dshow"
    ELSE IF "v4l2" \in b.feats /\ b.os = "linux" THEN "V4l2"
    ELSE IF "ffmpeg" \in b.feats /\ b.os \in {"macos", "linux", "windows"} THEN "Ffmpeg"
    ELSE "none"

\* open.rs lines 10, 29, 48, 67, 86: the backend branches of open_camera in
\* the order of the chain, and the cargo feature each one's cfg names
BranchOrder == << "Android", "Avf", "Dshow", "V4l2", "Ffmpeg" >>
FeatureOf ==
    [Android |-> "android", Avf |-> "avf", Dshow |-> "dshow", V4l2 |-> "v4l2",
     Ffmpeg |-> "ffmpeg"]

\* mutant: every branch whose own cfg holds is compiled into the function
Branches_EveryCfg(b) ==
    SelectSeq(BranchOrder,
              LAMBDA x : SelectBackend([os |-> b.os, feats |-> {FeatureOf[x]}]) = x)

\* cfg_if! compiles the first branch whose cfg holds and no other: the
\* branches of open_camera that exist in build b
Branches(b) == IF SelectBackend(b) = "none" THEN << >> ELSE << SelectBackend(b) >>

\* Results the selected driver's open() can return.
DriverOpenResults(b) ==
    IF b = "Android" THEN {"Ok", "NoCamera"}
    ELSE IF b = "Avf" THEN {"Ok", "NoCamera", "DriverError"}
    ELSE {"Ok"}

\* mutant: the channel is created with the configured number as it is; a
\* channel of capacity 0 accepts no try_send
Capacity_Raw == buffer_frames

\* sync_channel::<FrameMsg>(capacity.max(1))
Capacity == Max(buffer_frames, 1)

\* config.rs lines 50-53: with_buffer_frames(n) stores n.max(1)
with_buffer_frames(n) == Max(n, 1)

\* mutant: the bounded channel accepts one message more than its capacity
FrameTrySend_OffByOne ==
    IF ~rxAlive THEN "Disconnected"
    ELSE IF Len(queue) <= Capacity THEN "Ok"
    ELSE "Full"

\* SyncSender::try_send on the frame channel
FrameTrySend ==
    IF ~rxAlive THEN "Disconnected"
    ELSE IF Len(queue) < Capacity THEN "Ok"
    ELSE "Full"

\* SyncSender::try_send on the event channel: the channel afterwards
\* the Receiver<CameraEvent> lives in the Camera
EventsRxAlive == cam = "open"

\* the try_send would place the event
EventFits == EventsRxAlive /\ Len(events) < EventCap

EventTrySend(e) == IF EventFits THEN Append(events, e) ELSE events

\* `let _ = frame_tx.try_send(FrameMsg::Stop)`: the queue afterwards
SendStop == IF FrameTrySend = "Ok" THEN Append(queue, StopMsg) ELSE queue

\* the worker holds the read lock of the sink list
ReadLocked == wpc \in {"cycle", "insink"}

none == [f \in Frames |-> "none"]

\* groups of variables, for UNCHANGED
cfgVars == << build, buffer_frames, diagnostics, config >>
frmVars == << frame, usize_bits, valid, held >>
prodVars == << ppc, pframe >>
apiVars == << as_r, handle, out_slot, ffi_r, touched >>
camVars == << cam, backend, created, open_r, built >>
chanVars == << queue, rxAlive, txAlive >>
dispVars == << sinks, stop, join >>
workVars == << wpc, cur, idx >>
ffVars == << child, ff_stop, rpc, rframe, mpc, nextFrame, live >>
drvVars == << session, start_r >>
ctlVars == << cpc, dropping, drv_r >>
subHist == << outcome, evres, nDrop, nClosed >>
dlvHist == << log, taken >>
stopHist == << stopped, frozen, ret, afterFlag >>

\* ------------------------------------------------------------ open_camera
\* Nothing exists before open_camera is called.
Unopened ==
    /\ cam = "unopened" /\ backend = "none" /\ created = {} /\ open_r = "none"
    /\ built = << >>
    /\ queue = << >> /\ rxAlive = FALSE /\ txAlive = FALSE
    /\ sinks = << >> /\ stop = FALSE /\ join = "None"
    /\ wpc = "unspawned" /\ cur = NoMsg /\ idx = 0 /\ held = << >>
    /\ events = << >>
    /\ child = "None" /\ ff_stop = FALSE /\ rpc = "none" /\ rframe = 0
    /\ mpc = "none"
    /\ nextFrame = 1
    /\ live = [child |-> 0, reader |-> 0, monitor |-> 0]
    /\ ppc = [p \in Producers |-> "idle"] /\ pframe = [p \in Producers |-> 0]
    /\ as_r = << >>
    /\ handle = "none" /\ out_slot = "unwritten" /\ ffi_r = << >> /\ touched = 0
    /\ session = "None" /\ start_r = "none"
    /\ cpc = "idle" /\ dropping = FALSE /\ drv_r = "Ok" /\ ret = "none"
    /\ outcome = none /\ evres = none
    /\ log = [s \in SinkIds |-> << >>] /\ taken = << >>
    /\ regAt = [s \in SinkIds |-> 0]
    /\ nDrop = 0 /\ nClosed = 0 /\ stopped = FALSE /\ frozen = << >>
    /\ afterFlag = 0

\* The builds the dispatch pipeline is explored under: one for each backend
\* (ffmpeg submits frames; the android and avf constructors can fail; v4l2 and
\* dshow are stubs) and one with no backend.
PipelineBuilds ==
    { [os |-> "linux", feats |-> {"ffmpeg"}],
      [os |-> "android", feats |-> {"android"}],
      [os |-> "macos", feats |-> {"avf"}],
      [os |-> "linux", feats |-> {"v4l2"}],
      [os |-> "windows", feats |-> {"dshow"}],
      [os |-> "other", feats |-> {"ffmpeg"}] }

\* ------------------------------------------------------------- frame.rs
U32Max == 2^U32Bits - 1
UsizeMax(bits) == 2^bits - 1
\* a Vec holds at most isize::MAX bytes
IsizeMax(bits) == 2^(bits - 1) - 1

PixelFormat == {"Rgb8", "Bgra8"}

\* PixelFormat::bytes_per_pixel
bytes_per_pixel(pf) == IF pf = "Rgb8" THEN 3 ELSE 4

\* u32::saturating_mul / usize::saturating_mul
saturating_mul(a, b, max) == IF a * b > max THEN max ELSE a * b

\* Frame::validate; `bits` is the width of usize
validate(f, bits) ==
    LET bpp == bytes_per_pixel(f.pixel_format) IN
    IF f.width = 0 \/ f.height = 0 \/ f.stride = 0 THEN FALSE
    ELSE IF f.stride < saturating_mul(f.width, bpp, U32Max) THEN FALSE
    ELSE LET min_len == saturating_mul(f.stride, f.height, UsizeMax(bits)) IN
         f.len >= min_len

\* the longest buffer the inputs are drawn with
MaxDataLen == U32Max * MaxHeight

\* the frames validate() is applied to: every width and stride of a u32, the
\* heights up to MaxHeight, every buffer length a Vec<u8> of the target can have
\* up to MaxDataLen
FrameInputs(bits) ==
    [pixel_format : PixelFormat, width : 0..U32Max, height : 0..MaxHeight,
     stride : 0..U32Max, len : 0..Min(MaxDataLen, IsizeMax(bits))]

\* no Frame has been constructed
NoFrame ==
    [pixel_format |-> "none", width |-> 0, height |-> 0, stride |-> 0, len |-> 0]

\* Frame::new_rgb8 with a buffer of len bytes
new_rgb8(len, width, height, stride) ==
    [pixel_format |-> "Rgb8", width |-> width, height |-> height,
     stride |-> stride, len |-> len]

\* ffmpeg.rs lines 101-102: the stride and the buffer size the reader thread
\* derives from the configuration
reader_stride(c) == saturating_mul(c.width, 3, U32Max)
frame_size(c, bits) == saturating_mul(reader_stride(c), c.height, UsizeMax(bits))

\* ffmpeg.rs lines 119-121: the frame the reader thread builds from a full buffer
reader_frame(c, bits) ==
    new_rgb8(frame_size(c, bits), c.width, c.height, reader_stride(c))

\* the pipeline is explored with one configured size and validates no frame
NoFrameInput ==
    /\ usize_bits = 2 * U32Bits
    /\ config = [width |-> 4, height |-> 2]
    /\ frame = NoFrame
    /\ valid = "none"

\* CameraConfig.diagnostics: read by AndroidCameraDriver::open (Warning events)
\* and by spawn_reader, where it only selects the child's stderr; it is varied
\* where it changes what the pipeline does.
DiagnosticsOf(b) == IF SelectBackend(b) = "Android" THEN BOOLEAN ELSE {FALSE}

Init ==
    /\ build \in PipelineBuilds
    /\ buffer_frames \in {0, MaxBuffer}
    /\ diagnostics \in DiagnosticsOf(build)
    /\ NoFrameInput
    /\ Unopened

\* mutant: the event channel is created before the backend is looked for
OpenNoDriver_Channel ==
    /\ cam' = "nodriver" /\ created' = {"events"} /\ open_r' = "NoDriver"
    /\ UNCHANGED << backend, built, chanVars, dispVars, workVars, events, drvVars >>

\* open_camera, fallback branch: Err(CameraError::NoDriver)
OpenNoDriver ==
    /\ cam' = "nodriver" /\ open_r' = "NoDriver"
    /\ UNCHANGED << backend, created, built, chanVars, dispVars, workVars, events,
                    drvVars >>

\* What the driver's open() has put on the event channel when open_camera
\* returns Ok: android.rs lines 132-137 and 149-154, two Warning events with
\* config.diagnostics (the worker's Started may in the program come before or
\* between them). On Err the receiver is dropped with everything in it.
OpenEvents(b, r) ==
    IF b = "Android" /\ diagnostics /\ r = "Ok"
      THEN SubSeq(<< Ev("Warning", b), Ev("Warning", b) >>, 1, Min(2, EventCap))
      ELSE << >>

\* The capture session a driver holds when its open() returns: avf.rs line 107
\* stores Some(session); AndroidCameraDriver::open line 164 stores None.
OpenSession(b, r) == IF b = "Avf" /\ r = "Ok" THEN "Some" ELSE "None"

\* open_camera, a backend branch: the event channel, Dispatcher::new (frame
\* channel, worker thread), then the driver's open(); `?` on its error drops the
\* dispatcher (every sender) and the event receiver.
OpenBackend(b, r) ==
    /\ created' = {"events", "frames", "worker"}
    /\ events' = OpenEvents(b, r) /\ open_r' = r
    /\ queue' = << >> /\ rxAlive' = TRUE
    /\ sinks' = << >> /\ stop' = FALSE
    /\ wpc' = "start" /\ UNCHANGED << cur, idx >>
    /\ IF r = "Ok"
         THEN cam' = "open" /\ backend' = b /\ join' = "Some" /\ txAlive' = TRUE
         ELSE cam' = "openfailed" /\ backend' = "none" /\ join' = "None"
              /\ txAlive' = FALSE
    /\ session' = OpenSession(b, r) /\ start_r' = "none"
    /\ built' = Branches(build)

OpenCamera ==
    /\ cam = "unopened"
    /\ IF SelectBackend(build) = "none"
         THEN OpenNoDriver
         ELSE \E r \in DriverOpenResults(SelectBackend(build)) :
                 OpenBackend(SelectBackend(build), r)
    /\ UNCHANGED << cfgVars, apiVars, prodVars, frmVars, ffVars, ctlVars, subHist, dlvHist, regAt, stopHist >>

\* ------------------------------------------------- Dispatcher worker thread
\* mutant: the worker enters its loop without emitting Started
WorkerStarted_Silent ==
    /\ wpc = "start"
    /\ wpc' = "loop"
    /\ UNCHANGED << cfgVars, apiVars, prodVars, frmVars, drvVars, camVars, chanVars, dispVars, cur, idx, events, ffVars,
                    ctlVars, subHist, dlvHist, regAt, stopHist >>

\* line 73: events_tx.try_send(Started)
WorkerStarted ==
    /\ wpc = "start"
    /\ events' = EventTrySend(Ev("Started", SelectBackend(build)))
    /\ wpc' = "loop"
    /\ UNCHANGED << cfgVars, apiVars, prodVars, frmVars, drvVars, camVars, chanVars, dispVars, cur, idx, ffVars, ctlVars,
                    subHist, dlvHist, regAt, stopHist >>

\* mutant: the loop never looks at the stop flag
LoopCondition_NoFlag == TRUE

\* line 75: !stop2.load(Ordering::Relaxed)
LoopCondition == ~stop

\* line 75: while !stop2.load()
WorkerLoop ==
    /\ wpc = "loop"
    /\ wpc' = IF LoopCondition THEN "recv" ELSE "exit"
    /\ UNCHANGED << cfgVars, apiVars, prodVars, frmVars, drvVars, camVars, chanVars, dispVars, cur, idx, events, ffVars,
                    ctlVars, subHist, dlvHist, regAt, stopHist >>

\* mutant: the newest message is received first
Recv_Lifo ==
    [msg |-> queue[Len(queue)], rest |-> SubSeq(queue, 1, Len(queue) - 1)]

\* rx.recv_timeout on a non-empty channel: the oldest message leaves it
Recv == [msg |-> Head(queue), rest |-> Tail(queue)]

\* mutant: the worker reads the oldest message and leaves it in the channel
WorkerRecvFrame_Peek ==
    /\ wpc = "recv" /\ queue # << >> /\ Recv.msg.t = "Frame"
    /\ cur' = Recv.msg /\ queue' = queue
    /\ taken' = Append(taken, Recv.msg.f)
    /\ idx' = 1 /\ wpc' = "cycle"
    /\ afterFlag' = IF stop THEN afterFlag + 1 ELSE afterFlag
    /\ UNCHANGED << cfgVars, apiVars, prodVars, frmVars, drvVars, camVars, rxAlive, txAlive, dispVars, events, ffVars,
                    ctlVars, subHist, log, regAt, stopped, frozen, ret >>

\* lines 76-78: Ok(FrameMsg::Frame(frame)), sinks2.read()
WorkerRecvFrame ==
    /\ wpc = "recv" /\ queue # << >> /\ Recv.msg.t = "Frame"
    /\ cur' = Recv.msg /\ queue' = Recv.rest
    /\ taken' = Append(taken, Recv.msg.f)
    /\ idx' = 1 /\ wpc' = "cycle"
    /\ afterFlag' = IF stop THEN afterFlag + 1 ELSE afterFlag
    /\ UNCHANGED << cfgVars, apiVars, prodVars, frmVars, drvVars, camVars, rxAlive, txAlive, dispVars, events, ffVars,
                    ctlVars, subHist, log, regAt, stopped, frozen, ret >>

\* line 84: Ok(FrameMsg::Stop) => break
WorkerRecvStop ==
    /\ wpc = "recv" /\ queue # << >> /\ Recv.msg.t = "Stop"
    /\ queue' = Recv.rest
    /\ wpc' = "exit"
    /\ UNCHANGED << cfgVars, apiVars, prodVars, frmVars, drvVars, camVars, rxAlive, txAlive, dispVars, cur, idx, events,
                    ffVars, ctlVars, subHist, dlvHist, regAt, stopHist >>

\* mutant: a receive timeout ends the loop
WorkerTimeout_Break ==
    /\ wpc = "recv" /\ queue = << >> /\ txAlive
    /\ wpc' = "exit"
    /\ UNCHANGED << cfgVars, apiVars, prodVars, frmVars, drvVars, camVars, chanVars, dispVars, cur, idx, events, ffVars,
                    ctlVars, subHist, dlvHist, regAt, stopHist >>

\* line 85: Err(Timeout) => continue
WorkerTimeout ==
    /\ wpc = "recv" /\ queue = << >> /\ txAlive
    /\ wpc' = "loop"
    /\ UNCHANGED << cfgVars, apiVars, prodVars, frmVars, drvVars, camVars, chanVars, dispVars, cur, idx, events, ffVars,
                    ctlVars, subHist, dlvHist, regAt, stopHist >>

\* mutant: a disconnected channel is treated like a timeout
WorkerDisconnected_Continue ==
    /\ wpc = "recv" /\ queue = << >> /\ ~txAlive
    /\ wpc' = "loop"
    /\ UNCHANGED << cfgVars, apiVars, prodVars, frmVars, drvVars, camVars, chanVars, dispVars, cur, idx, events, ffVars,
                    ctlVars, subHist, dlvHist, regAt, stopHist >>

\* line 86: Err(Disconnected) => break
WorkerDisconnected ==
    /\ wpc = "recv" /\ queue = << >> /\ ~txAlive
    /\ wpc' = "exit"
    /\ UNCHANGED << cfgVars, apiVars, prodVars, frmVars, drvVars, camVars, chanVars, dispVars, cur, idx, events, ffVars,
                    ctlVars, subHist, dlvHist, regAt, stopHist >>

\* mutant: the walk ends after the first sink
ListExhausted_AfterFirst == idx > Min(1, Len(sinks))

\* line 79: the for loop over the list has no sink left
ListExhausted == idx > Len(sinks)

\* mutant: the list is walked from its end
SinkAt_Reverse(i) == sinks[Len(sinks) + 1 - i]

\* line 79: list.iter(), the sink the cycle invokes at position i of the list
SinkAt(i) == sinks[i]

\* frame.rs line 31, #[derive(Clone)]: a new Frame with the same fields and
\* its own copy of the buffer
clone(f) == f

\* mutant: the sink is handed the worker's frame itself, so what the sink
\* writes is what the worker holds
WorkerFrameAfter_Shared(own, written) == written

\* line 80: the sink owns the clone it was given; what it writes into it
\* leaves the worker's frame as it was
WorkerFrameAfter(own, written) == own

\* line 80: (s)(frame.clone()) is entered
SinkCall ==
    /\ wpc = "cycle" /\ ~ListExhausted
    /\ held' = Append(held, clone(cur.f))
    /\ log' = [log EXCEPT ![SinkAt(idx)] = Append(@, held'[idx])]
    /\ wpc' = "insink"
    /\ UNCHANGED << cfgVars, apiVars, prodVars, frame, usize_bits, valid, drvVars, camVars, chanVars, dispVars,
                    cur, idx, events, ffVars, ctlVars, subHist, taken, regAt, stopHist >>

\* line 80, inside the sink: the sink overwrites the Frame it was given with
\* content w (a sink is any Fn(Frame); the value is its own)
SinkWrite(w) ==
    /\ wpc = "insink" /\ held[idx] # w
    /\ held' = [held EXCEPT ![idx] = w]
    /\ cur' = [cur EXCEPT !.f = WorkerFrameAfter(@, w)]
    /\ UNCHANGED << cfgVars, apiVars, prodVars, frame, usize_bits, valid, drvVars, camVars, chanVars, dispVars,
                    wpc, idx, events, ffVars, ctlVars, subHist, dlvHist, regAt, stopHist >>

\* line 80: the sink returns
SinkReturn ==
    /\ wpc = "insink"
    /\ idx' = idx + 1 /\ wpc' = "cycle"
    /\ UNCHANGED << cfgVars, apiVars, prodVars, frmVars, drvVars, camVars, chanVars, dispVars, cur, events, ffVars,
                    ctlVars, subHist, dlvHist, regAt, stopHist >>

\* mutant: after a cycle the worker receives again without looking at the flag
CycleEnd_NoCheck ==
    /\ wpc = "cycle" /\ ListExhausted
    /\ cur' = NoMsg /\ idx' = 0 /\ wpc' = "recv" /\ held' = << >>
    /\ UNCHANGED << cfgVars, apiVars, prodVars, frame, usize_bits, valid, drvVars, camVars, chanVars, dispVars, events, ffVars, ctlVars,
                    subHist, dlvHist, regAt, stopHist >>

\* lines 81-83: the list is exhausted, the read guard and the frame are dropped
CycleEnd ==
    /\ wpc = "cycle" /\ ListExhausted
    /\ cur' = NoMsg /\ idx' = 0 /\ wpc' = "loop" /\ held' = << >>
    /\ UNCHANGED << cfgVars, apiVars, prodVars, frame, usize_bits, valid, drvVars, camVars, chanVars, dispVars, events, ffVars, ctlVars,
                    subHist, dlvHist, regAt, stopHist >>

\* mutant: Stopped is sent with a blocking send(), which waits for a free slot
WorkerExit_Blocking ==
    /\ wpc = "exit"
    /\ ~(EventsRxAlive /\ Len(events) >= EventCap)
    /\ events' = EventTrySend(Ev("Stopped", SelectBackend(build)))
    /\ rxAlive' = FALSE /\ queue' = << >>
    /\ wpc' = "done" /\ afterFlag' = 0
    /\ UNCHANGED << cfgVars, apiVars, prodVars, frmVars, drvVars, camVars, txAlive, dispVars, cur, idx, ffVars, ctlVars,
                    subHist, dlvHist, regAt, stopped, frozen, ret >>

\* mutant: the receiver outlives the worker (it is not owned by the closure),
\* so the channel stays connected and keeps what it holds
WorkerExit_KeepsRx ==
    /\ wpc = "exit"
    /\ events' = EventTrySend(Ev("Stopped", SelectBackend(build)))
    /\ wpc' = "done" /\ afterFlag' = 0
    /\ UNCHANGED << cfgVars, apiVars, prodVars, frmVars, drvVars, camVars, chanVars, dispVars, cur, idx, ffVars, ctlVars,
                    subHist, dlvHist, regAt, stopped, frozen, ret >>

\* lines 90-91: events_tx.try_send(Stopped); the closure returns and drops rx,
\* which disconnects the channel and discards what it still holds
WorkerExit ==
    /\ wpc = "exit"
    /\ events' = EventTrySend(Ev("Stopped", SelectBackend(build)))
    /\ rxAlive' = FALSE /\ queue' = << >>
    /\ wpc' = "done" /\ afterFlag' = 0
    /\ UNCHANGED << cfgVars, apiVars, prodVars, frmVars, drvVars, camVars, txAlive, dispVars, cur, idx, ffVars, ctlVars,
                    subHist, dlvHist, regAt, stopped, frozen, ret >>

Worker ==
    \/ WorkerStarted \/ WorkerLoop \/ WorkerRecvFrame \/ WorkerRecvStop
    \/ WorkerTimeout \/ WorkerDisconnected \/ SinkCall \/ SinkReturn
    \/ CycleEnd \/ WorkerExit

\* --------------------------------------------- ffmpeg driver: reader thread
\* ffmpeg.rs line 115: while !stop.load()
ReaderCheck ==
    /\ rpc = "check"
    /\ rpc' = IF ff_stop THEN "exited" ELSE "read"
    /\ UNCHANGED << cfgVars, apiVars, prodVars, frmVars, drvVars, camVars, chanVars, dispVars, workVars, events, live, child,
                    ff_stop, rframe, mpc, nextFrame, ctlVars, subHist, dlvHist,
                    regAt, stopHist >>

\* lines 116-121: read_exact returns a whole frame (also one the pipe still
\* holds after the child has gone)
ReaderReadOk ==
    /\ rpc = "read" /\ nextFrame <= MaxFrames
    /\ rframe' = nextFrame /\ nextFrame' = nextFrame + 1
    /\ rpc' = "send"
    /\ UNCHANGED << cfgVars, apiVars, prodVars, frmVars, drvVars, camVars, chanVars, dispVars, workVars, events, live, child,
                    ff_stop, mpc, ctlVars, subHist, dlvHist, regAt, stopHist >>

\* mutant: the end of the stream is reported as CameraError::NoCamera
ReadErrors_NoCamera == {"NoCamera", "DriverError"}

\* the CameraError of the reader's Error event: lines 124-130 CameraError::other
\* at UnexpectedEof, lines 131-137 CameraError::driver for another read error
ReadErrors == {"Other", "DriverError"}

\* lines 124-137: UnexpectedEof once the child has gone ("Other"), or another
\* read error ("DriverError"); an Error event and the thread ends
ReaderReadFail ==
    /\ rpc = "read"
    /\ \E e \in ReadErrors :
          /\ e = "Other" => child # "Running"
          /\ events' = EventTrySend(ErrEv("Ffmpeg", e))
    /\ rpc' = "exited"
    /\ UNCHANGED << cfgVars, apiVars, prodVars, frmVars, drvVars, camVars, chanVars, dispVars, workVars, live, child, ff_stop,
                    rframe, mpc, nextFrame, ctlVars, subHist, dlvHist, regAt,
                    stopHist >>

\* the child exits on its own (device unplugged, ffmpeg error)
ChildExits ==
    /\ child = "Running"
    /\ child' = "Exited"
    /\ UNCHANGED << cfgVars, apiVars, prodVars, frmVars, drvVars, camVars, chanVars, dispVars, workVars, events, live, ff_stop,
                    rpc, rframe, mpc, nextFrame, ctlVars, subHist, dlvHist, regAt,
                    stopHist >>

\* ffmpeg.rs lines 147-181, the monitor thread: it ends once the stop flag is
\* set; while it is not, a child that has exited ("Other") or a failed
\* try_wait ("DriverError") makes it emit an Error event and end
MonitorPoll ==
    /\ mpc = "check"
    /\ IF ff_stop
         THEN UNCHANGED events
         ELSE \E e \in {"Other", "DriverError"} :
                 /\ e = "Other" => child = "Exited"
                 /\ events' = EventTrySend(ErrEv("Ffmpeg", e))
    /\ mpc' = "exited"
    /\ UNCHANGED << cfgVars, apiVars, prodVars, frmVars, drvVars, camVars, chanVars, dispVars, workVars, live, child, ff_stop,
                    rpc, rframe, nextFrame, ctlVars, subHist, dlvHist, regAt,
                    stopHist >>

\* ---------------------------------------------------------- try_send_frame
\* mutant: a full queue gives up its oldest message to take the new frame
Submit_DropOldest(res) ==
    /\ rpc = "send"
    /\ outcome' = [outcome EXCEPT ![rframe] = res]
    /\ IF res = "Disconnected"
         THEN UNCHANGED << queue, rframe >> /\ rpc' = "report"
         ELSE /\ queue' = Append(IF res = "Full" THEN Tail(queue) ELSE queue,
                                 FrameMsg(rframe, Len(sinks)))
              /\ IF res = "Full"
                   THEN UNCHANGED rframe /\ rpc' = "report"
                   ELSE rframe' = 0 /\ rpc' = "check"
    /\ UNCHANGED << cfgVars, apiVars, prodVars, frmVars, drvVars, camVars, rxAlive, txAlive, dispVars, workVars, events,
                    live, child, ff_stop, mpc, nextFrame, ctlVars, evres, nDrop, nClosed,
                    dlvHist, regAt, stopHist >>

\* driver.rs lines 209-210: the try_send returned res; Ok ends the call
Submit(res) ==
    /\ rpc = "send"
    /\ outcome' = [outcome EXCEPT ![rframe] = res]
    /\ IF res = "Ok"
         THEN queue' = Append(queue, FrameMsg(rframe, Len(sinks))) /\ rframe' = 0 /\ rpc' = "check"
         ELSE UNCHANGED << queue, rframe >> /\ rpc' = "report"
    /\ UNCHANGED << cfgVars, apiVars, prodVars, frmVars, drvVars, camVars, rxAlive, txAlive, dispVars, workVars, events,
                    live, child, ff_stop, mpc, nextFrame, ctlVars, evres, nDrop, nClosed,
                    dlvHist, regAt, stopHist >>

\* mutant: a blocking send(), which waits while the queue is full
TrySendFrame_Blocking == FrameTrySend # "Full" /\ Submit(FrameTrySend)

\* driver.rs line 209: frame_tx.try_send(FrameMsg::Frame(frame))
TrySendFrame == Submit(FrameTrySend)

\* driver.rs lines 199-201: report_drop
report_drop ==
    /\ events' = EventTrySend(Ev("FrameDropped", "Ffmpeg"))
    /\ nDrop' = IF EventFits THEN nDrop + 1 ELSE nDrop
    /\ UNCHANGED nClosed

\* mutant: a disconnected channel is reported like a full one
report_closed_AsDrop == report_drop

\* driver.rs lines 212-217: Error { error: CameraError::Closed }
report_closed ==
    /\ events' = EventTrySend(ErrEv("Ffmpeg", "Closed"))
    /\ nClosed' = IF EventFits THEN nClosed + 1 ELSE nClosed
    /\ UNCHANGED nDrop

\* driver.rs lines 211-217: the Err arms of try_send_frame
TrySendFrameErr ==
    /\ rpc = "report"
    /\ IF outcome[rframe] = "Full" THEN report_drop ELSE report_closed
    /\ evres' = [evres EXCEPT ![rframe] = IF EventFits THEN "placed" ELSE "lost"]
    /\ rframe' = 0 /\ rpc' = "check"
    /\ UNCHANGED << cfgVars, apiVars, prodVars, frmVars, drvVars, camVars, chanVars, dispVars, workVars, live, child, ff_stop,
                    mpc, nextFrame, ctlVars, outcome, dlvHist, regAt, stopHist >>

Reader ==
    \/ ReaderCheck \/ ReaderReadOk \/ ReaderReadFail \/ TrySendFrame
    \/ TrySendFrameErr

\* --------------------------------------------------- the Camera's owner
Idle == cam = "open" /\ cpc = "idle"

\* mutant: the new sink replaces the list
Push_Replace(list, sink) == << sink >>

\* driver.rs line 107: g.push(sink)
Push(list, sink) == Append(list, sink)

\* Camera::add_sink -> Dispatcher::add_sink: sinks.write(), push
AddSink ==
    /\ Idle /\ Len(sinks) < MaxSinks
    /\ ~ReadLocked
    /\ sinks' = Push(sinks, Len(sinks) + 1)
    /\ regAt' = [regAt EXCEPT ![Len(sinks) + 1] = Len(taken)]
    /\ UNCHANGED << cfgVars, apiVars, prodVars, frmVars, drvVars, camVars, chanVars, stop, join, workVars, events, ffVars,
                    ctlVars, subHist, dlvHist, stopHist >>

\* mutant: the reader and monitor threads are spawned before the `?` on spawn()
FfmpegStart_ThreadsFirst(spawned) ==
    IF child # "None"
      THEN UNCHANGED ffVars
      ELSE /\ ff_stop' = FALSE
           /\ rpc' = "check" /\ mpc' = "check"
           /\ child' = IF spawned THEN "Running" ELSE child
           /\ live' = [child |-> live.child + (IF spawned THEN 1 ELSE 0),
                       reader |-> live.reader + 1, monitor |-> live.monitor + 1]
           /\ UNCHANGED << rframe, nextFrame >>

\* mutant: start() spawns without looking at the handle it holds; the handles
\* it held are overwritten, the process and the threads behind them go on
FfmpegStart_Always(spawned) ==
    /\ ff_stop' = FALSE
    /\ IF spawned
         THEN /\ child' = "Running" /\ rpc' = "check" /\ mpc' = "check"
              /\ live' = [child |-> live.child + 1, reader |-> live.reader + 1,
                          monitor |-> live.monitor + 1]
         ELSE UNCHANGED << child, rpc, mpc, live >>
    /\ UNCHANGED << rframe, nextFrame >>

\* FfmpegCameraDriver::start: no-op while a child handle is held; the stop flag
\* is cleared; spawn() fails (Err) or the child, the reader thread and the
\* monitor thread exist
FfmpegStart(spawned) ==
    IF child # "None"
      THEN UNCHANGED ffVars
      ELSE /\ ff_stop' = FALSE
           /\ IF spawned
                THEN /\ child' = "Running" /\ rpc' = "check" /\ mpc' = "check"
                     /\ live' = [child |-> live.child + 1, reader |-> live.reader + 1,
                                 monitor |-> live.monitor + 1]
                ELSE UNCHANGED << child, rpc, mpc, live >>
           /\ UNCHANGED << rframe, nextFrame >>

\* The capture session after start(): android.rs lines 188-190 store a new
\* session (and then return Err); avf.rs lines 296-309 call startRunning on the
\* session held since open(); v4l2 and dshow hold nothing.
StartSession(b, s) ==
    IF b = "Android" THEN "Some"
    ELSE IF b = "Avf" /\ s # "None" THEN "Running"
    ELSE s

\* What start() returns. ffmpeg.rs lines 87-93: Ok while a child is held, else
\* the result of spawn(), whose error is CameraError::driver (line 279);
\* v4l2.rs 35-37, dshow.rs 35-39 and android.rs 192-194: Err(unsupported);
\* avf.rs 297-308: Err(NoCamera) without a session, else Ok.
StartResult(b, spawned) ==
    IF b = "Ffmpeg" THEN (IF child # "None" \/ spawned THEN "Ok" ELSE "DriverError")
    ELSE IF b = "Avf" THEN (IF session = "None" THEN "NoCamera" ELSE "Ok")
    ELSE "Unsupported"

\* Camera::start: self.driver.start(); the other drivers' start() touch nothing
\* of the pipeline
Start ==
    /\ Idle
    /\ \E spawned \in BOOLEAN :
          /\ IF backend = "Ffmpeg"
               THEN FfmpegStart(spawned)
               ELSE UNCHANGED ffVars
          /\ start_r' = StartResult(backend, spawned)
    /\ session' = StartSession(backend, session)
    /\ UNCHANGED << cfgVars, apiVars, prodVars, frmVars, camVars, chanVars, dispVars, workVars, events, cpc,
                    dropping, drv_r, subHist, dlvHist, regAt, stopHist >>

\* mutant: `self.driver.stop()?`, an Err of the driver ends Camera::stop
AfterDriverStop_Question(res) == IF res = "Err" THEN "idle" ELSE "flag"

\* Camera::stop lines 179-180: whatever the driver's stop() returned, the next
\* statement is self.dispatcher.stop()
AfterDriverStop(res) == "flag"

\* mutant: stop_child leaves the handle in place (as_mut instead of take)
StopChild_NoTake == child

\* FfmpegCameraDriver::stop_child: self.child.take(), the child is terminated
\* and reaped; the handle afterwards
StopChild == "None"

\* The capture session after stop(): android.rs line 198 `self.session = None`
\* releases it; avf.rs lines 313-323 call stopRunning and keep the session.
StopSession(b, s) ==
    IF b = "Android" THEN "None"
    ELSE IF b = "Avf" /\ s # "None" THEN "Some"
    ELSE s

\* Camera::stop line 179 / Drop line 195: self.driver.stop() begins.
\* FfmpegCameraDriver::stop lines 190-191: the flag, then stop_child takes the
\* handle and terminates and reaps the child. The other drivers return Ok.
StopBegin(byDrop) ==
    /\ Idle
    /\ dropping' = byDrop /\ drv_r' = "Ok"
    /\ IF backend = "Ffmpeg"
         THEN /\ ff_stop' = TRUE /\ child' = StopChild /\ cpc' = "ff_join"
              /\ live' = [live EXCEPT !.child = IF child # "None" THEN @ - 1 ELSE @]
         ELSE UNCHANGED << ff_stop, child, live >> /\ cpc' = AfterDriverStop("Ok")
    /\ session' = StopSession(backend, session) /\ UNCHANGED start_r
    /\ UNCHANGED << cfgVars, apiVars, prodVars, frmVars, camVars, chanVars, dispVars, workVars, events, rpc,
                    rframe, mpc, nextFrame, subHist, dlvHist, regAt, stopHist >>

Stop == StopBegin(FALSE)

\* Camera::stop line 179 with a driver whose stop() returns Err: the trait's
\* signature allows it, no driver of the crate does it
StopDriverErr(byDrop) ==
    /\ Idle /\ backend # "Ffmpeg"
    /\ dropping' = byDrop /\ drv_r' = "Err"
    /\ cpc' = AfterDriverStop("Err")
    /\ UNCHANGED << cfgVars, apiVars, prodVars, frmVars, drvVars, camVars, chanVars, dispVars, workVars, events, ffVars,
                    subHist, dlvHist, regAt, stopHist >>

DropCamera == StopBegin(TRUE)

\* mutant: stop() joins the reader thread and leaves the monitor thread alone
FfmpegJoin_ReaderOnly ==
    /\ cpc = "ff_join"
    /\ rpc \in {"none", "exited"}
    /\ rpc' = "none" /\ cpc' = "ff_sentinel"
    /\ live' = [live EXCEPT !.reader = IF rpc # "none" THEN @ - 1 ELSE @]
    /\ UNCHANGED << cfgVars, apiVars, prodVars, frmVars, drvVars, camVars, chanVars, dispVars,
                    workVars, events, child, ff_stop, rframe, mpc, nextFrame, dropping,
                    drv_r, subHist, dlvHist, regAt, stopHist >>

\* FfmpegCameraDriver::stop lines 193-198: reader_join.take(), join(), then
\* monitor_join.take(), join()
FfmpegJoin ==
    /\ cpc = "ff_join"
    /\ rpc \in {"none", "exited"} /\ mpc \in {"none", "exited"}
    /\ rpc' = "none" /\ mpc' = "none" /\ cpc' = "ff_sentinel"
    /\ live' = [live EXCEPT !.reader = IF rpc # "none" THEN @ - 1 ELSE @,
                            !.monitor = IF mpc # "none" THEN @ - 1 ELSE @]
    /\ UNCHANGED << cfgVars, apiVars, prodVars, frmVars, drvVars, camVars, chanVars, dispVars, workVars, events, child,
                    ff_stop, rframe, nextFrame, dropping, drv_r, subHist, dlvHist,
                    regAt, stopHist >>

\* FfmpegCameraDriver::stop line 200: frame_tx.try_send(FrameMsg::Stop)
FfmpegSentinel ==
    /\ cpc = "ff_sentinel"
    /\ queue' = SendStop /\ cpc' = "flag"
    /\ UNCHANGED << cfgVars, apiVars, prodVars, frmVars, drvVars, camVars, rxAlive, txAlive, dispVars, workVars, events,
                    ffVars, dropping, drv_r, subHist, dlvHist, regAt, stopHist >>

\* Dispatcher::stop line 112: self.stop.store(true)
DispatcherStopFlag ==
    /\ cpc = "flag"
    /\ stop' = TRUE /\ cpc' = "sentinel"
    /\ UNCHANGED << cfgVars, apiVars, prodVars, frmVars, drvVars, camVars, chanVars, sinks, join, workVars, events,
                    ffVars, dropping, drv_r, subHist, dlvHist, regAt, stopHist >>

\* Dispatcher::stop line 113: self.tx.try_send(FrameMsg::Stop)
DispatcherSentinel ==
    /\ cpc = "sentinel"
    /\ queue' = SendStop /\ cpc' = "join"
    /\ UNCHANGED << cfgVars, apiVars, prodVars, frmVars, drvVars, camVars, rxAlive, txAlive, dispVars, workVars, events,
                    ffVars, dropping, drv_r, subHist, dlvHist, regAt, stopHist >>

\* mutant: stop() does not join the worker
JoinReturns_NoJoin == TRUE

\* Dispatcher::stop lines 114-116: join.take() is None, or j.join() returns
JoinReturns == join = "None" \/ wpc = "done"

\* Dispatcher::stop lines 114-117 and the return of Camera::stop
DispatcherJoin ==
    /\ cpc = "join"
    /\ JoinReturns
    /\ join' = "None"
    /\ stopped' = TRUE
    /\ frozen' = IF stopped THEN frozen ELSE log
    /\ ret' = drv_r /\ UNCHANGED afterFlag
    /\ cpc' = IF dropping THEN "dropfields" ELSE "idle"
    /\ UNCHANGED << cfgVars, apiVars, prodVars, frmVars, drvVars, camVars, chanVars, sinks, stop, workVars, events,
                    ffVars, dropping, drv_r, subHist, dlvHist, regAt >>

\* Drop for Camera, after stop(): the fields go (driver and its senders, the
\* dispatcher's sender, the event receiver)
DropFields ==
    /\ cpc = "dropfields"
    /\ cam' = "dropped" /\ txAlive' = FALSE /\ events' = << >>
    /\ session' = "None" /\ UNCHANGED start_r
    /\ cpc' = "idle"
    /\ UNCHANGED << cfgVars, apiVars, prodVars, frmVars, backend, created, open_r, built, queue, rxAlive,
                    dispVars, workVars, ffVars, dropping, drv_r, subHist, dlvHist, regAt, stopHist >>

\* the application polls Camera::events()
RecvEvent ==
    /\ cam = "open" /\ events # << >>
    /\ events' = Tail(events)
    /\ UNCHANGED << cfgVars, apiVars, prodVars, frmVars, drvVars, camVars, chanVars, dispVars, workVars, ffVars, ctlVars,
                    subHist, dlvHist, regAt, stopHist >>

Owner ==
    \/ AddSink \/ Start \/ Stop \/ DropCamera \/ FfmpegJoin \/ FfmpegSentinel
    \/ DispatcherStopFlag \/ DispatcherSentinel \/ DispatcherJoin \/ DropFields

Next ==
    \/ OpenCamera \/ Worker \/ Reader \/ MonitorPoll \/ ChildExits \/ Owner
    \/ RecvEvent

Spec == Init /\ [][Next]_vars

\* The scheduler runs every thread that can take a step: the worker (sinks
\* return), the reader, the monitor and the owner once it is inside stop().
StopSteps ==
    \/ FfmpegJoin \/ FfmpegSentinel \/ DispatcherStopFlag \/ DispatcherSentinel
    \/ DispatcherJoin \/ DropFields

FairSpec ==
    /\ Spec /\ WF_vars(Worker) /\ WF_vars(Reader) /\ WF_vars(MonitorPoll)
    /\ WF_vars(StopSteps)

\* open_camera alone, under every target and feature set, and the worker it
\* leaves behind.
InitOpen ==
    /\ build \in AllBuilds
    /\ buffer_frames \in {0, MaxBuffer}
    /\ diagnostics \in DiagnosticsOf(build)
    /\ NoFrameInput
    /\ Unopened

NextOpen ==
    \/ OpenCamera \/ WorkerStarted \/ WorkerLoop \/ WorkerTimeout
    \/ WorkerDisconnected \/ WorkerExit

SpecOpen == InitOpen /\ [][NextOpen]_vars

\* Frame::validate applied to a frame, on a 32-bit and on a 64-bit target
InitValidate ==
    /\ build = [os |-> "other", feats |-> {}]
    /\ buffer_frames = 0 /\ diagnostics = FALSE
    /\ Unopened
    /\ usize_bits \in {U32Bits, 2 * U32Bits}
    /\ frame \in FrameInputs(usize_bits)
    /\ config = [width |-> frame.width, height |-> frame.height]
    /\ valid = "none"

Validate ==
    /\ valid = "none" /\ frame # NoFrame
    /\ valid' = IF validate(frame, usize_bits) THEN "true" ELSE "false"
    /\ UNCHANGED << cfgVars, apiVars, prodVars, drvVars, camVars, chanVars, dispVars, workVars, events,
                    ffVars, ctlVars, subHist, dlvHist, regAt, stopHist, frame,
                    usize_bits, held >>

SpecValidate == InitValidate /\ [][Validate]_vars

\* The ffmpeg reader thread's frame under every CameraConfig width and height:
\* FfmpegCameraDriver::open accepts any configuration
InitReader ==
    /\ build = [os |-> "linux", feats |-> {"ffmpeg"}]
    /\ buffer_frames = 0 /\ diagnostics = FALSE
    /\ Unopened
    /\ usize_bits \in {U32Bits, 2 * U32Bits}
    /\ config \in [width : 0..U32Max, height : 0..U32Max]
    /\ frame = NoFrame
    /\ valid = "none"

\* ffmpeg.rs lines 113-121: vec![0u8; frame_size] (which panics beyond
\* isize::MAX), read_exact fills the buffer (an empty buffer is always
\* filled), and the frame handed to try_send_frame is built
ReaderFrame ==
    /\ frame = NoFrame
    /\ frame_size(config, usize_bits) <= IsizeMax(usize_bits)
    /\ frame' = reader_frame(config, usize_bits)
    /\ UNCHANGED << cfgVars, apiVars, prodVars, drvVars, camVars, chanVars, dispVars, workVars, events,
                    ffVars, ctlVars, subHist, dlvHist, regAt, stopHist, usize_bits,
                    valid, held >>

NextReader == ReaderFrame \/ Validate

SpecReader == InitReader /\ [][NextReader]_vars

\* ---------------------------------------------------- the C ABI (ffi.rs)
\* ffi.rs lines 49-57: From<CameraError> for AsimovCameraErrorCode
ErrorCode(e) ==
    CASE e = "NoDriver" -> "NoDriver"
      [] e = "NoCamera" -> "NoCamera"
      [] e = "DriverError" -> "DriverError"

\* ffi.rs lines 77-89: device_c_str_to_string; NULL is the default device
device_c_str_to_string(device) ==
    IF device = "NULL" THEN "Ok"
    ELSE IF device = "utf8" THEN "Ok"
    ELSE "InvalidArgument"

Devices == {"NULL", "utf8", "not-utf8"}
Pointers == {"NULL", "valid"}

\* nothing but the C ABI's own state and the driver behind the handle changes
FfiFrame ==
    UNCHANGED << cfgVars, prodVars, frmVars, start_r, camVars, chanVars, dispVars,
                 workVars, events, ffVars, ctlVars, subHist, dlvHist, regAt, stopHist,
                 as_r >>

\* the call returns without reaching a driver
Rejected(fn, arg, code) ==
    /\ ffi_r' = << fn, arg, code >>
    /\ UNCHANGED << handle, out_slot, touched, session >>

\* mutant: the device is opened before out_handle is looked at
asimov_camera_open_Late(device, out_handle, r) ==
    /\ handle # "live" /\ touched < MaxTouch
    /\ IF device_c_str_to_string(device) # "Ok"
         THEN Rejected("open", out_handle, "InvalidArgument")
         ELSE /\ touched' = touched + 1
              /\ IF out_handle = "NULL"
                   THEN /\ ffi_r' = << "open", out_handle, "InvalidArgument" >>
                        /\ UNCHANGED << handle, out_slot, session >>
                   ELSE IF r = "Ok"
                   THEN /\ handle' = "live" /\ out_slot' = "handle"
                        /\ session' = OpenSession("Avf", r)
                        /\ ffi_r' = << "open", out_handle, "Ok" >>
                   ELSE /\ ffi_r' = << "open", out_handle, ErrorCode(r) >>
                        /\ UNCHANGED << handle, out_slot, session >>
    /\ FfiFrame

\* ffi.rs lines 137-171: asimov_camera_open; r is what AvfCameraDriver::open
\* returns if it is reached
asimov_camera_open(device, out_handle, r) ==
    /\ handle # "live"
    /\ IF out_handle = "NULL"
         THEN Rejected("open", out_handle, "InvalidArgument")
         ELSE IF device_c_str_to_string(device) # "Ok"
         THEN Rejected("open", out_handle, "InvalidArgument")
         ELSE /\ touched < MaxTouch /\ touched' = touched + 1
              /\ IF r = "Ok"
                   THEN /\ handle' = "live" /\ out_slot' = "handle"
                        /\ session' = OpenSession("Avf", r)
                        /\ ffi_r' = << "open", out_handle, "Ok" >>
                   ELSE /\ ffi_r' = << "open", out_handle, ErrorCode(r) >>
                        /\ UNCHANGED << handle, out_slot, session >>
    /\ FfiFrame

\* ffi.rs lines 182-193: asimov_camera_start; a non-null handle is the live one
asimov_camera_start(h) ==
    /\ IF h = "NULL"
         THEN Rejected("start", h, "InvalidArgument")
         ELSE /\ handle = "live" /\ touched < MaxTouch /\ touched' = touched + 1
              /\ session' = StartSession("Avf", session)
              /\ ffi_r' = << "start", h,
                             IF session = "None" THEN ErrorCode("NoCamera") ELSE "Ok" >>
              /\ UNCHANGED << handle, out_slot >>
    /\ FfiFrame

\* ffi.rs lines 205-216: asimov_camera_stop
asimov_camera_stop(h) ==
    /\ IF h = "NULL"
         THEN Rejected("stop", h, "InvalidArgument")
         ELSE /\ handle = "live" /\ touched < MaxTouch /\ touched' = touched + 1
              /\ session' = StopSession("Avf", session)
              /\ ffi_r' = << "stop", h, "Ok" >>
              /\ UNCHANGED << handle, out_slot >>
    /\ FfiFrame

\* ffi.rs lines 227-235: asimov_camera_free; dropping the box drops the
\* driver, whose Drop stops the session, and the session with it
asimov_camera_free(h) ==
    /\ IF h = "NULL"
         THEN Rejected("free", h, "void")
         ELSE /\ handle = "live" /\ touched < MaxTouch /\ touched' = touched + 1
              /\ handle' = "freed" /\ session' = "None"
              /\ ffi_r' = << "free", h, "void" >>
              /\ UNCHANGED out_slot
    /\ FfiFrame

\* ffi.rs lines 257-276: asimov_camera_get_session
asimov_camera_get_session(h) ==
    /\ IF h = "NULL"
         THEN Rejected("get_session", h, "NULL")
         ELSE /\ handle = "live" /\ touched < MaxTouch /\ touched' = touched + 1
              /\ ffi_r' = << "get_session", h,
                             IF session = "None" THEN "NULL" ELSE "AVCaptureSession*" >>
              /\ UNCHANGED << handle, out_slot, session >>
    /\ FfiFrame

\* The C ABI over the AVFoundation driver, called with null and valid
\* pointers; no open_camera, no dispatcher.
InitFfi ==
    /\ build = [os |-> "ios", feats |-> {"avf"}]
    /\ buffer_frames = 0 /\ diagnostics = FALSE
    /\ NoFrameInput
    /\ Unopened

NextFfi ==
    \/ \E device \in Devices, out_handle \in Pointers,
          r \in DriverOpenResults("Avf") : asimov_camera_open(device, out_handle, r)
    \/ \E h \in Pointers :
          \/ asimov_camera_start(h) \/ asimov_camera_stop(h)
          \/ asimov_camera_free(h) \/ asimov_camera_get_session(h)

SpecFfi == InitFfi /\ [][NextFfi]_vars

\* ------------------------------------------ Camera::driver_as, driver_as_mut
\* the types that implement CameraDriver, and a type that does not
DriverTypes ==
    {"AndroidCameraDriver", "AvfCameraDriver", "DshowCameraDriver",
     "V4l2CameraDriver", "FfmpegCameraDriver"}
Types == DriverTypes \cup {"u32"}

\* the concrete type open_camera boxes for a backend (open.rs lines 21, 40,
\* 59, 78, 97)
ConcreteType(b) ==
    CASE b = "Android" -> "AndroidCameraDriver"
      [] b = "Avf" -> "AvfCameraDriver"
      [] b = "Dshow" -> "DshowCameraDriver"
      [] b = "V4l2" -> "V4l2CameraDriver"
      [] b = "Ffmpeg" -> "FfmpegCameraDriver"

\* mutant: the ffmpeg driver on linux names the capture API ffmpeg reads
\* from (ffmpeg_format() is "v4l2" there) as its backend
driver_backend_Format(T) ==
    CASE T = "AndroidCameraDriver" -> "Android"
      [] T = "DshowCameraDriver" -> "Dshow"
      [] T = "V4l2CameraDriver" -> "V4l2"
      [] T = "FfmpegCameraDriver" -> "V4l2"

\* CameraDriver::backend of each driver type: android.rs lines 183-185,
\* dshow.rs 31-33, v4l2.rs 31-33, ffmpeg.rs 82-84. avf.rs implements none.
driver_backend(T) ==
    CASE T = "AndroidCameraDriver" -> "Android"
      [] T = "DshowCameraDriver" -> "Dshow"
      [] T = "V4l2CameraDriver" -> "V4l2"
      [] T = "FfmpegCameraDriver" -> "Ffmpeg"

\* driver.rs lines 162-164: Camera::backend() is self.driver.backend(), the
\* driver being the one open_camera boxed
Camera_backend == driver_backend(ConcreteType(built[1]))

\* mutant: as_any is taken of the Box that holds the driver
as_any_OfBox(b) == "Box<dyn CameraDriver>"

\* fn as_any(&self) -> &dyn Any { self } (and as_any_mut): the type behind
\* the &dyn Any is the driver's own
as_any(b) == ConcreteType(b)

\* <dyn Any>::downcast_ref::<T> / downcast_mut::<T>: Some exactly when the
\* type behind the reference is T
downcast(any, T) == IF any = T THEN "Some" ELSE "None"

\* driver.rs lines 184-190: driver_as::<T>() or driver_as_mut::<T>() is called
\* on an open camera and returns. avf.rs implements neither as_any nor
\* as_any_mut, so there is no such call on an avf camera.
DriverAs(T) ==
    /\ cam = "open" /\ backend # "Avf"
    /\ as_r' = << T, downcast(as_any(backend), T) >>
    /\ UNCHANGED << handle, out_slot, ffi_r, touched >>
    /\ UNCHANGED << cfgVars, prodVars, frmVars, drvVars, camVars, chanVars, dispVars,
                    workVars, events, ffVars, ctlVars, subHist, dlvHist, regAt, stopHist >>

\* open_camera under every build, the worker it spawns, and the accessors
NextDriverAs == NextOpen \/ \E T \in Types : DriverAs(T)

SpecDriverAs == InitOpen /\ [][NextDriverAs]_vars

\* ------------------------------------- producers sharing the frame sender
\* A thread that holds a clone of Dispatcher::sender() has a frame to submit.
ProducerFrame(p) ==
    /\ cam = "open" /\ ppc[p] = "idle" /\ nextFrame <= MaxFrames
    /\ pframe' = [pframe EXCEPT ![p] = nextFrame] /\ nextFrame' = nextFrame + 1
    /\ ppc' = [ppc EXCEPT ![p] = "send"]
    /\ UNCHANGED << cfgVars, apiVars, frmVars, drvVars, camVars, chanVars, dispVars, workVars, events,
                    live, child, ff_stop, rpc, rframe, mpc, ctlVars, subHist, dlvHist, regAt,
                    stopHist >>

\* mutant: a frame the queue has no room for is enqueued all the same, and
\* then reported
ProducerSubmit_Both(p) ==
    /\ ppc[p] = "send"
    /\ outcome' = [outcome EXCEPT ![pframe[p]] = FrameTrySend]
    /\ IF FrameTrySend # "Disconnected"
         THEN queue' = Append(queue, FrameMsg(pframe[p], Len(sinks)))
         ELSE UNCHANGED queue
    /\ IF FrameTrySend = "Ok"
         THEN pframe' = [pframe EXCEPT ![p] = 0] /\ ppc' = [ppc EXCEPT ![p] = "idle"]
         ELSE UNCHANGED pframe /\ ppc' = [ppc EXCEPT ![p] = "report"]
    /\ UNCHANGED << cfgVars, apiVars, frmVars, drvVars, camVars, rxAlive, txAlive, dispVars, workVars,
                    events, ffVars, ctlVars, evres, nDrop, nClosed, dlvHist, regAt,
                    stopHist >>

\* driver.rs lines 209-210, called by producer p: the try_send is one atomic
\* operation of the channel; Ok ends the call
ProducerSubmit(p) ==
    /\ ppc[p] = "send"
    /\ outcome' = [outcome EXCEPT ![pframe[p]] = FrameTrySend]
    /\ IF FrameTrySend = "Ok"
         THEN /\ queue' = Append(queue, FrameMsg(pframe[p], Len(sinks)))
              /\ pframe' = [pframe EXCEPT ![p] = 0] /\ ppc' = [ppc EXCEPT ![p] = "idle"]
         ELSE UNCHANGED << queue, pframe >> /\ ppc' = [ppc EXCEPT ![p] = "report"]
    /\ UNCHANGED << cfgVars, apiVars, frmVars, drvVars, camVars, rxAlive, txAlive, dispVars, workVars,
                    events, ffVars, ctlVars, evres, nDrop, nClosed, dlvHist, regAt,
                    stopHist >>

\* driver.rs lines 211-217, called by producer p: FrameDropped after Full,
\* Error(Closed) after Disconnected, each with a try_send on the event channel
ProducerReport(p) ==
    /\ ppc[p] = "report"
    /\ IF outcome[pframe[p]] = "Full"
         THEN /\ events' = EventTrySend(Ev("FrameDropped", backend))
              /\ nDrop' = IF EventFits THEN nDrop + 1 ELSE nDrop
              /\ UNCHANGED nClosed
         ELSE /\ events' = EventTrySend(ErrEv(backend, "Closed"))
              /\ nClosed' = IF EventFits THEN nClosed + 1 ELSE nClosed
              /\ UNCHANGED nDrop
    /\ evres' = [evres EXCEPT ![pframe[p]] = IF EventFits THEN "placed" ELSE "lost"]
    /\ pframe' = [pframe EXCEPT ![p] = 0] /\ ppc' = [ppc EXCEPT ![p] = "idle"]
    /\ UNCHANGED << cfgVars, apiVars, frmVars, drvVars, camVars, chanVars, dispVars, workVars, ffVars,
                    ctlVars, outcome, dlvHist, regAt, stopHist >>

\* A dispatcher whose sender is shared by MaxProducers threads: the camera of
\* a backend whose own driver submits nothing, its worker, sinks being added,
\* the event consumer and stop().
InitProducers ==
    /\ build = [os |-> "linux", feats |-> {"v4l2"}]
    /\ buffer_frames \in {0, MaxBuffer}
    /\ diagnostics = FALSE
    /\ NoFrameInput
    /\ Unopened

NextProducers ==
    \/ OpenCamera
    \/ WorkerStarted \/ WorkerLoop \/ WorkerRecvFrame \/ WorkerRecvStop
    \/ WorkerTimeout \/ SinkCall \/ SinkReturn \/ CycleEnd \/ WorkerExit
    \/ AddSink \/ Stop \/ DispatcherStopFlag \/ DispatcherSentinel \/ DispatcherJoin
    \/ RecvEvent
    \/ \E p \in Producers : ProducerFrame(p) \/ ProducerSubmit(p) \/ ProducerReport(p)

SpecProducers == InitProducers /\ [][NextProducers]_vars

\* The pipeline with, in addition, sinks that overwrite the frame they are given.
Contents == 0..MaxFrames

NextSinks == Next \/ \E w \in Contents : SinkWrite(w)

SpecSinks == Init /\ [][NextSinks]_vars

\* The pipeline with, in addition, a driver whose stop() fails.
NextStop == Next \/ StopDriverErr(FALSE) \/ StopDriverErr(TRUE)

SpecStop == Init /\ [][NextStop]_vars

\* the detached worker is scheduled like any thread
WorkerOpen ==
    \/ WorkerStarted \/ WorkerLoop \/ WorkerTimeout \/ WorkerDisconnected
    \/ WorkerExit

FairSpecOpen == SpecOpen /\ WF_vars(WorkerOpen)

\* ------------------------------------------------------------- vocabulary
Range(q) == { q[i] : i \in DOMAIN q }
Count(x, q) == Cardinality({ i \in DOMAIN q : q[i] = x })
Submitted == { f \in Frames : outcome[f] # "none" }
Enqueued == { f \in Frames : outcome[f] = "Ok" }
RejectedFull == { f \in Frames : outcome[f] = "Full" }
RejectedClosed == { f \in Frames : outcome[f] = "Disconnected" }
QueuedFrames == { m \in Range(queue) : m.t = "Frame" }
\* a Camera::stop() (or the drop of the Camera) has been called
StopCalled == cpc # "idle" \/ stopped

\* ------------------------------------------------------------------ C1
\* every sink registered when the frame of message m was submitted has been
\* invoked exactly once with it
DeliveredToAll(f, n) == \A k \in 1..n : Count(f, log[k]) = 1

Drained == QueuedFrames = {} /\ cur = NoMsg

C2_Case == taken = << >> /\ ~StopCalled /\ rpc # "report" /\ wpc # "done"

C2_Queue ==
    /\ Enqueued = 1..Min(Cardinality(Submitted), Capacity)
    /\ queue = [i \in 1..Cardinality(Enqueued) |-> queue[i]]
    /\ \A i \in DOMAIN queue : queue[i].t = "Frame" /\ queue[i].f = i
    /\ nClosed = 0

C3_NeverBlocks ==
    /\ [](rpc = "send" => ENABLED TrySendFrame)
    /\ [](rpc = "report" => ENABLED TrySendFrameErr)
    /\ [][/\ (rpc = "send" /\ rpc' # "send") => rpc' \in {"check", "report"}
          /\ (rpc = "report" /\ rpc' # "report") => rpc' = "check"]_vars

\* a rejected submission about to report while the queue is full and the
\* event channel is full
C3_Witness ==
    /\ rpc = "report" /\ Len(queue) = Capacity /\ Len(events) = EventCap

\* ------------------------------------------------------------------ C4
\* C4: once a stop() or the drop has returned, the worker has terminated, no
\* sink runs or is invoked again, and a later stop() finds nothing to do and
\* returns without waiting.
C4_StopIdempotent ==
    /\ cam = "dropped" => stopped
    /\ stopped =>
         /\ wpc = "done" /\ log = frozen
         /\ stop /\ join = "None" /\ ~rxAlive /\ queue = << >>
         /\ cpc = "join" => JoinReturns

\* a second stop(), after a start(), has reached its join
C4_Witness == stopped /\ cpc = "join" /\ ~dropping /\ nextFrame > 1

\* ------------------------------------------------------------------ C5
\* the owner is inside Dispatcher::stop()
InDispatcherStop == cpc \in {"flag", "sentinel", "join"}

\* C5: the worker leaves its loop when it finds the stop flag set at the head
\* of an iteration or receives the sentinel, and under fair scheduling, with
\* sinks that return, every Dispatcher::stop() returns: the owner is never
\* inside it for ever.
C5_StopTerminates ==
    /\ [][(wpc = "loop" /\ stop /\ wpc' # "loop") => wpc' = "exit"]_vars
    /\ [][(wpc = "recv" /\ queue # << >> /\ Head(queue) = StopMsg /\ wpc' # "recv")
            => wpc' = "exit"]_vars
    /\ []<>~InDispatcherStop

\* stop() waits in join while the queue is full of frames, so that neither
\* sentinel could be enqueued, and the worker is still running
C5_Witness ==
    /\ cpc = "join" /\ wpc \notin {"exit", "done"}
    /\ Len(queue) = Capacity /\ StopMsg \notin Range(queue)

\* ------------------------------------------------------------------ C6
\* C6: every sink receives the frames in the order the producer submitted
\* them (frame ids count the submissions); drops only leave gaps.
C6_SubmissionOrder ==
    \A k \in SinkIds : \A i, j \in DOMAIN log[k] :
        i < j => log[k][i] < log[k][j]

\* a sink has received frames 1 and 3, frame 2 was dropped
C6_Witness ==
    /\ outcome[2] = "Full"
    /\ \E k \in SinkIds : Len(log[k]) = 2 /\ log[k][1] = 1 /\ log[k][2] = 3

\* ------------------------------------------------------------------ C7
\* C7: a frame submitted after the worker has gone is never queued, received
\* or delivered; its submission makes one attempt to place Error(Closed) on the
\* event channel and counts as no drop.
C7_Closed ==
    /\ [](\A f \in RejectedClosed :
            /\ \A m \in QueuedFrames : m.f # f
            /\ f \notin Range(taken)
            /\ \A k \in SinkIds : f \notin Range(log[k]))
    /\ [](nDrop = Cardinality({ f \in RejectedFull : evres[f] = "placed" }))
    /\ [][(rpc = "send" /\ rpc' # "send" /\ ~rxAlive) =>
            outcome'[rframe] = "Disconnected" /\ rpc' = "report"]_vars
    /\ [][(rpc = "report" /\ rpc' = "check" /\ outcome[rframe] = "Disconnected") =>
            events' = IF EventFits
                        THEN Append(events, ErrEv("Ffmpeg", "Closed"))
                        ELSE events]_vars

\* a frame of a restarted driver was rejected as disconnected and reported
C7_Witness ==
    \E f \in RejectedClosed :
        evres[f] = "placed" /\ ErrEv("Ffmpeg", "Closed") \in Range(events)

\* ------------------------------------------------------------------ C8
IsSuffix(a, b) ==
    Len(a) <= Len(b) /\ a = SubSeq(b, Len(b) - Len(a) + 1, Len(b))
Front(q) == SubSeq(q, 1, Len(q) - 1)
\* sink k has been invoked in the dispatch cycle in progress
Got(k) == cur # NoMsg /\ log[k] # << >> /\ log[k][Len(log[k])] = cur.f
\* what sink k received in the cycles that are over
Before(k) == IF Got(k) THEN Front(log[k]) ELSE log[k]

\* C8: within a cycle the sinks are invoked one at a time in registration
\* order, and no sink sees the next frame before every sink has seen this one.
C8_RegistrationOrder ==
    /\ \A j, k \in 1..Len(sinks) :
          j < k => /\ Got(k) => Got(j)
                   /\ IsSuffix(Before(k), Before(j))
    /\ wpc = "insink" =>
          /\ Got(sinks[idx])
          /\ \A k \in 1..Len(sinks) : k > sinks[idx] => ~Got(k)

\* the first of two sinks is running its second frame, the second waits
C8_Witness ==
    /\ Len(sinks) = 2 /\ wpc = "insink" /\ Got(1) /\ ~Got(2)
    /\ Len(log[1]) = 2 /\ Len(log[2]) = 1

\* ------------------------------------------------------------------ C9
\* the frames whose cycle started after add_sink returned for sink k
Since(k) == SubSeq(taken, regAt[k] + 1, Len(taken))

\* C9: a registered sink is invoked with exactly the frames whose cycle starts
\* after its add_sink returned, whenever add_sink was called, and add_sink
\* only appends to the list.
C9_AddSink ==
    /\ [](\A k \in 1..Len(sinks) :
            \/ log[k] = Since(k)
            \/ cur # NoMsg /\ ~Got(k) /\ log[k] = Front(Since(k)))
    /\ [][Len(sinks') >= Len(sinks) /\ SubSeq(sinks', 1, Len(sinks)) = sinks]_vars

\* a sink added while frames were flowing has received a later frame, the
\* older sink all of them
C9_Witness ==
    /\ Len(sinks) = 2 /\ regAt[2] >= 1 /\ log[2] # << >>
    /\ Len(log[1]) > Len(log[2])

\* ------------------------------------------------------------------ C10
\* the targets each feature's cfg names
TargetsOf(feature) ==
    CASE feature = "android" -> {"android"}
      [] feature = "avf" -> {"ios", "macos"}
      [] feature = "dshow" -> {"windows"}
      [] feature = "v4l2" -> {"linux"}
      [] feature = "ffmpeg" -> {"macos", "linux", "windows"}

NoBackendApplies == \A feature \in build.feats : build.os \notin TargetsOf(feature)

\* C10: open_camera returns NoDriver exactly when no enabled feature matches
\* the target, and then it has created no channel and no thread.
C10_NoDriver ==
    /\ cam # "unopened" => (cam = "nodriver" <=> NoBackendApplies)
    /\ cam = "nodriver" =>
         /\ created = {} /\ wpc = "unspawned" /\ join = "None"
         /\ ~rxAlive /\ ~txAlive /\ events = << >> /\ queue = << >>

\* NoDriver with features enabled, none of them for this target
C10_Witness == cam = "nodriver" /\ build.feats # {} /\ build.os = "linux"

\* ------------------------------------------------------------------ C11
\* C11: when the driver's constructor fails, open_camera returns the error with
\* no Camera, every sender of the frame channel is gone and the handle of the
\* worker is dropped; the worker finds the channel disconnected, leaves its
\* loop and, under fair scheduling, terminates.
C11_FailedOpen ==
    /\ [](cam = "openfailed" =>
            /\ ~txAlive /\ join = "None" /\ backend = "none"
            /\ "NoCamera" \in DriverOpenResults(SelectBackend(build)))
    /\ [][(wpc = "recv" /\ ~txAlive /\ queue = << >> /\ wpc' # "recv")
            => wpc' = "exit"]_vars
    /\ []<>(cam = "openfailed" => wpc = "done")

\* the worker of a failed open has terminated
C11_Witness == cam = "openfailed" /\ wpc = "done" /\ ~rxAlive

\* ------------------------------------------------------------------ C12
\* C12: a submission that finds the queue full leaves the queue as it was, and
\* the submitted frame is never queued, received or delivered.
C12_DropNewest ==
    /\ [][(rpc = "send" /\ rpc' # "send" /\ rxAlive /\ Len(queue) >= Capacity) =>
            queue' = queue /\ outcome'[rframe] = "Full"]_vars
    /\ [](\A f \in RejectedFull :
            /\ \A m \in QueuedFrames : m.f # f
            /\ f \notin Range(taken)
            /\ \A k \in SinkIds : f \notin Range(log[k]))

\* a frame was just rejected by a full queue that still holds the older frames
C12_Witness ==
    /\ rpc = "report" /\ rframe \in RejectedFull
    /\ Len(queue) = Capacity /\ Capacity = 2
    /\ \A i \in DOMAIN queue : queue[i].t = "Frame" /\ queue[i].f < rframe

\* ------------------------------------------------------------------ C13
\* everything but the event channel and the record of what landed on it
coreVars ==
    << build, buffer_frames, cam, backend, created, queue, rxAlive, txAlive,
       sinks, stop, join, wpc, cur, idx, child, ff_stop, rpc, rframe, mpc,
       nextFrame, cpc, dropping, drv_r, outcome, log, taken, regAt, stopped,
       ret, frozen, session, start_r, diagnostics, open_r, frame, usize_bits,
       valid >>

\* the application takes an event from Camera::events()
DrainStep == cam = "open" /\ cam' = "open" /\ events # << >> /\ events' = Tail(events)

KindCount(kind, q) == Cardinality({ i \in DOMAIN q : q[i].kind = kind })
\* the channel after one try_send of an event of this kind by the dispatcher
Emitted(kind) ==
    IF EventFits THEN Append(events, Ev(kind, SelectBackend(build))) ELSE events

\* C14: the worker passes its entry once and its exit once; leaving the entry
\* is one try_send of Started, made before any sink was invoked, and leaving
\* the exit is one try_send of Stopped, after which no sink is invoked; no
\* other step puts a Started or a Stopped on the channel, and on the channel
\* Stopped never precedes Started.
C14_StartedStopped ==
    /\ [][/\ wpc' = "start" => wpc \in {"unspawned", "start"}
          /\ wpc = "done" => wpc' = "done"
          /\ (wpc = "start" /\ wpc' # "start") => events' = Emitted("Started")
          /\ (wpc = "exit" /\ wpc' # "exit") => events' = Emitted("Stopped")
          /\ KindCount("Started", events') > KindCount("Started", events)
                => wpc = "start" /\ wpc' = "loop"
          /\ KindCount("Stopped", events') > KindCount("Stopped", events)
                => wpc = "exit" /\ wpc' = "done"
          /\ wpc \in {"exit", "done"} => log' = log]_vars
    /\ [](wpc \in {"unspawned", "start"} => \A k \in SinkIds : log[k] = << >>)
    /\ [](\A i, j \in DOMAIN events :
            i < j => ~(events[i].kind = "Stopped" /\ events[j].kind = "Started"))
    /\ [](KindCount("Started", events) <= 1 /\ KindCount("Stopped", events) <= 1)

\* Started and Stopped are both on the channel, in that order, and a sink was
\* invoked in between
C14_Witness ==
    /\ wpc = "done" /\ Len(events) = 2 /\ log[1] # << >>
    /\ events[1].kind = "Started" /\ events[2].kind = "Stopped"

\* ------------------------------------------------------------------ C15
\* the worker has left its loop
WorkerLeft == wpc \in {"exit", "done"}

StartStep ==
    /\ cam = "open" /\ cpc = "idle" /\ cpc' = "idle"
    /\ \/ child = "None" /\ child' = "Running"
       \/ ff_stop /\ ~ff_stop'
       \/ session' # session

\* C16: Dispatcher::stop begins only after the driver's stop() is over (the
\* ffmpeg driver has then reaped its child and joined its threads); it runs
\* also when the driver's stop() returned Err; Camera::stop returns only once
\* the worker is joined, and returns what the driver returned; Camera::start
\* changes nothing of the dispatcher.
C16_StopDelegates ==
    /\ [](InDispatcherStop /\ backend = "Ffmpeg" =>
            ff_stop /\ child = "None" /\ rpc = "none" /\ mpc = "none")
    /\ [](drv_r = "Err" =>
            \/ InDispatcherStop \/ cpc = "dropfields"
            \/ stopped /\ wpc = "done" /\ join = "None")
    /\ [][/\ (~stop /\ stop') => cpc = "flag" /\ cpc' = "sentinel"
          /\ (cpc = "join" /\ cpc' # "join") =>
                wpc = "done" /\ join' = "None" /\ ret' = drv_r
          /\ ret' # ret => cpc = "join"
          /\ StartStep => UNCHANGED << chanVars, dispVars, workVars, events >>]_vars

\* Camera::stop has returned the driver's Err, with the worker joined
C16_Witness == ret = "Err" /\ cpc = "idle" /\ wpc = "done" /\ join = "None"

\* ------------------------------------------------------------------ C17
\* the step in which a driver's stop() is entered
DriverStopStep == cpc = "idle" /\ cpc' \in {"ff_join", "flag"}

\* the owner is past the driver's stop() of the call in progress
DriverStopOver == cpc \in {"ff_sentinel", "flag", "sentinel", "join", "dropfields"}

FailedStart == start_r \notin {"none", "Ok"}

SetupErrors == {"NoDriver", "NoCamera", "InvalidConfig", "NotConfigured"}

\* what the calls of the owner have returned
Returned == << open_r, start_r, drv_r, ret >>

\* a step that rejects a frame as Full, or puts a FrameDropped or a Warning on
\* the event channel
NonFatalStep ==
    \/ RejectedFull' # RejectedFull
    \/ KindCount("FrameDropped", events') > KindCount("FrameDropped", events)
    \/ KindCount("Warning", events') > KindCount("Warning", events)

\* C19: no Error event on the channel carries NoDriver, NoCamera,
\* InvalidConfig or NotConfigured; a setup failure of open_camera is its
\* result and leaves no event channel to carry anything; a failing start()
\* puts nothing on the event channel; a step that drops a frame or emits
\* FrameDropped changes the result of no call, a Warning is emitted only by
\* an open_camera that returns Ok, and no call returns anything but Ok or one
\* of NoDriver, NoCamera, Unsupported, DriverError.
C19_ErrorTaxonomy ==
    /\ [](\A i \in DOMAIN events :
            events[i].kind = "Error" => events[i].error \notin SetupErrors)
    /\ [](/\ cam = "nodriver" <=> open_r = "NoDriver"
          /\ cam = "openfailed" <=> open_r \in {"NoCamera", "DriverError"}
          /\ cam \in {"open", "dropped"} <=> open_r = "Ok")
    /\ [](open_r \notin {"none", "Ok"} => events = << >> /\ ~EventsRxAlive)
    /\ [](/\ start_r \in {"none", "Ok", "Unsupported", "DriverError", "NoCamera"}
          /\ drv_r = "Ok" /\ ret \in {"none", "Ok"})
    /\ [][/\ (start_r' # start_r /\ FailedStart') => events' = events
          /\ NonFatalStep =>
                (Returned' = Returned \/ (open_r = "none" /\ open_r' = "Ok"))]_vars

\* an Error event and a FrameDropped event are on the channel of a camera
\* that was opened and started without error
C19_Witness ==
    /\ open_r = "Ok" /\ start_r = "Ok" /\ Len(events) = 2
    /\ events[1].kind = "FrameDropped" /\ events[2].kind = "Error"

\* ------------------------------------------------------------------ C20
\* the predicate of the claim, in unbounded integers
ClaimedValid(f) ==
    /\ f.width # 0 /\ f.height # 0 /\ f.stride # 0
    /\ f.stride >= f.width * bytes_per_pixel(f.pixel_format)
    /\ f.len >= f.stride * f.height

\* C20 as stated: validate() returns true exactly when width, height and
\* stride are non-zero, stride >= width * bytes_per_pixel and
\* data.len() >= stride * height.
C20_Original == valid # "none" => (valid = "true" <=> ClaimedValid(frame))

\* C20, what validate() computes: it agrees with the claim's predicate for
\* every frame whose width * bytes_per_pixel fits a u32 (the Rgb8 frame of
\* width 4, height 2, stride 12 passes with 24 bytes and fails with 23); for a
\* wider frame the product saturates, and validate() accepts the frame whose
\* stride is u32::MAX although a row does not fit the stride.
C20_ValidateSaturates ==
    valid # "none" =>
      LET row == frame.width * bytes_per_pixel(frame.pixel_format) IN
      /\ row <= U32Max => (valid = "true" <=> ClaimedValid(frame))
      /\ row > U32Max =>
            (valid = "true" <=> /\ frame.height # 0 /\ frame.stride = U32Max
                                /\ frame.len >= frame.stride * frame.height)
      /\ (/\ frame.pixel_format = "Rgb8" /\ frame.width = 4 /\ frame.height = 2
          /\ frame.stride = 12 /\ frame.len \in {23, 24})
            => (valid = "true" <=> frame.len = 24)

\* validate() has accepted a frame whose row is longer than its stride
C20_Witness ==
    /\ valid = "true"
    /\ frame.stride < frame.width * bytes_per_pixel(frame.pixel_format)

\* ------------------------------------------------------------------ C21
\* C21 as stated: every frame the ffmpeg reader thread builds and submits
\* passes Frame::validate(), for every width and height of the CameraConfig.
C21_Original == valid # "none" => valid = "true"

\* C21, what holds: the frame the reader thread submits passes validate()
\* exactly when the configured width and height are both non-zero; with a zero
\* width or height the buffer is empty, read_exact succeeds at once and the
\* frame submitted fails validate().
C21_ValidUnlessZero ==
    valid # "none" => (valid = "true" <=> config.width # 0 /\ config.height # 0)

\* the reader thread has built a frame that fails validate()
C21_Witness ==
    /\ frame = reader_frame(config, usize_bits) /\ valid = "false"
    /\ config.width = 0 /\ config.height # 0

\* ------------------------------------------------------------------ C22
\* the frame the worker received for the cycle in progress
Received == taken[Len(taken)]

\* C22: every sink of a cycle is invoked with the content of the frame that
\* was submitted and received, whatever the sinks invoked before it wrote into
\* the value they were given; the worker's frame keeps that content for the
\* whole cycle.
C22_SameFrame ==
    /\ [](wpc \in {"cycle", "insink"} => cur.f = Received)
    /\ [][wpc = "cycle" /\ wpc' = "insink" =>
             /\ held'[idx] = Received
             /\ log'[SinkAt(idx)][Len(log'[SinkAt(idx)])] = Received]_vars

\* the second sink of a cycle has been given the submitted frame after the
\* first sink overwrote its own
C22_Witness ==
    /\ Len(sinks) = 2 /\ wpc = "insink" /\ idx = 2
    /\ held[1] # Received /\ held[2] = Received /\ log[2][Len(log[2])] = Received

\* ------------------------------------------------------------------ C23
\* C23: the queue never holds more than max(buffer_frames, 1) messages, frames
\* and stop sentinels together; its capacity is at least 1, so a submission
\* that finds the queue empty and the worker alive is enqueued, also with
\* buffer_frames = 0; with_buffer_frames(n) gives the same capacity as n.
C23_QueueBound ==
    /\ [](Len(queue) <= Max(buffer_frames, 1))
    /\ [][(rpc = "send" /\ rpc' # "send" /\ rxAlive /\ queue = << >>) =>
            Len(queue') = 1]_vars
    /\ \A n \in 0..MaxBuffer : Max(with_buffer_frames(n), 1) = Max(n, 1)

\* with buffer_frames = 0 the queue holds one message and a further frame was
\* rejected as Full
C23_Witness ==
    /\ buffer_frames = 0 /\ Len(queue) = 1
    /\ rpc = "report" /\ rframe \in RejectedFull

\* ------------------------------------------------------------------ C24
\* the cfg of backend x's branch holds in the build
Applies(x) ==
    FeatureOf[x] \in build.feats /\ build.os \in TargetsOf(FeatureOf[x])

\* the backends whose cfg holds, in the order android, avf, dshow, v4l2, ffmpeg
Applicable == SelectSeq(BranchOrder, Applies)

AddSinkCalled == Idle /\ Len(sinks) < MaxSinks

\* C25 as stated: a call of add_sink made while a sink is executing on the
\* worker can take the write lock and return without waiting for the sink.
C25_Original == (AddSinkCalled /\ wpc = "insink") => ENABLED AddSink

\* C25, what holds: add_sink's write() is granted exactly when the worker is
\* not in a dispatch cycle, and the list does not change during a cycle.
C25_WaitsForCycle ==
    /\ [](AddSinkCalled => (ENABLED AddSink <=> wpc \notin {"cycle", "insink"}))
    /\ [][(wpc = "cycle" \/ wpc = "insink") => sinks' = sinks]_vars

\* add_sink is called while the only registered sink is executing and waits
C25_Witness ==
    /\ AddSinkCalled /\ wpc = "insink" /\ Len(sinks) = 1 /\ ~ENABLED AddSink

\* ------------------------------------------------------------------ C26
\* the frames whose submission is over
Completed == { f \in Submitted : \A p \in Producers : pframe[p] # f }

\* number of places a frame occupies in the queue and among the received
Places(f) == Count(f, [i \in DOMAIN queue |-> queue[i].f]) + Count(f, taken)

\* C26: with several producers submitting through clones of the sender, the
\* queue never exceeds its capacity; a submission ends in exactly one way:
\* enqueued once with no event attempted, or never enqueued with a
\* FrameDropped attempted (queue full), or never enqueued with an
\* Error(Closed) attempted (worker gone); the events placed are those.
C26_Producers ==
    /\ Len(queue) <= Capacity
    /\ \A f \in Completed :
          \/ outcome[f] = "Ok" /\ evres[f] = "none"
          \/ outcome[f] \in {"Full", "Disconnected"} /\ evres[f] # "none"
    /\ \A f \in Frames :
          /\ Places(f) <= 1
          /\ outcome[f] # "Ok" => Places(f) = 0 /\ \A k \in SinkIds : f \notin Range(log[k])
          /\ evres[f] # "none" => outcome[f] \in {"Full", "Disconnected"}
    /\ nDrop = Cardinality({ f \in RejectedFull : evres[f] = "placed" })
    /\ nClosed = Cardinality({ f \in RejectedClosed : evres[f] = "placed" })

\* one producer is reporting a frame the full queue rejected while the other
\* is reporting a frame it submitted after the worker had gone
C26_Witness ==
    /\ ppc[1] = "report" /\ outcome[pframe[1]] = "Full"
    /\ ppc[2] = "report" /\ outcome[pframe[2]] = "Disconnected"
    /\ Enqueued # {}

FfiStep == ffi_r' # ffi_r \/ touched' # touched

\* what each function answers to a null pointer
NullAnswer(fn) ==
    CASE fn \in {"open", "start", "stop"} -> "InvalidArgument"
      [] fn = "get_session" -> "NULL"
      [] fn = "free" -> "void"

\* C28: a call with a NULL out_handle or a NULL handle returns InvalidArgument
\* (NULL from get_session, nothing from free) and reaches no driver: no
\* device is opened, no session is started, stopped or read, no handle is
\* freed; and an open that does not return Ok leaves *out_handle unwritten
\* and creates no handle.
C28_NullRejected ==
    [][FfiStep =>
         /\ ffi_r'[2] = "NULL" =>
               /\ ffi_r'[3] = NullAnswer(ffi_r'[1])
               /\ UNCHANGED << touched, session, handle, out_slot >>
         /\ (ffi_r'[1] = "open" /\ ffi_r'[3] # "Ok") =>
               UNCHANGED << handle, out_slot >>]_vars

\* after a successful open and one start, start was called with NULL: the
\* session is still running and the driver was reached twice, not three times
C28_Witness ==
    /\ ffi_r = << "start", "NULL", "InvalidArgument" >>
    /\ handle = "live" /\ session = "Running" /\ touched = 2

\* ------------------------------------------------------------------ C29
\* FfmpegCameraDriver::stop() has set the stop flag and has not returned
InFfmpegStop == ff_stop /\ cpc \in {"ff_join", "ff_sentinel"}

\* the reader thread leaves through one of its Err arms, which try_send an
\* Error event
ReaderErrorStep == rpc = "read" /\ rpc' = "exited"

\* the monitor thread leaves with the stop flag clear, through an arm that
\* try_sends an Error event
MonitorErrorStep == mpc = "check" /\ mpc' = "exited" /\ ~ff_stop

\* C29 as stated: between the moment stop() sets the flag and its return,
\* neither the reader nor the monitor emits an Error event.
C29_Original == [][InFfmpegStop => ~(ReaderErrorStep \/ MonitorErrorStep)]_vars

\* C29, what holds: during stop() the monitor emits nothing, and an Error
\* event of the stream or the child that lands on the event channel is the
\* reader's, which emits it on the way out of its loop.
C29_MonitorSilent ==
    /\ [][(InFfmpegStop /\ mpc' # mpc) => events' = events]_vars
    /\ [][(InFfmpegStop /\ Len(events') > Len(events)
            /\ events'[Len(events')].kind = "Error"
            /\ events'[Len(events')].error \in ReadErrors) => ReaderErrorStep]_vars

\* stop() has killed the child and waits for the reader, which is inside
\* read_exact and will find the end of the stream
C29_Witness ==
    /\ InFfmpegStop /\ cpc = "ff_join" /\ child = "None" /\ rpc = "read"
    /\ ~dropping /\ ENABLED ReaderReadFail

\* ------------------------------------------------------------------ C30
\* the owner is inside FfmpegCameraDriver::stop()
InDriverStop == cpc \in {"ff_join", "ff_sentinel"}

\* C30: once FfmpegCameraDriver::stop() is past its joins the driver holds no
\* child (it was terminated and reaped), no reader and no monitor thread and
\* no frame in hand; while there is no reader thread no frame is read or
\* submitted, and a reader thread comes only from a later start(); and under
\* fair scheduling stop() does not wait for ever, whatever the child and the
\* reader were doing when it was called.
C30_FfmpegStop ==
    /\ [](backend = "Ffmpeg" /\ cpc \notin {"idle", "ff_join"} =>
            child = "None" /\ rpc = "none" /\ mpc = "none" /\ rframe = 0)
    /\ [](backend = "Ffmpeg" /\ child = "None" /\ cpc # "ff_join" =>
            rpc = "none" /\ mpc = "none")
    /\ [][rpc = "none" =>
            /\ outcome' = outcome /\ nextFrame' = nextFrame
            /\ rpc' # "none" => (StartStep /\ child' = "Running")]_vars
    /\ []<>~InDriverStop

\* stop() of a camera whose child had exited by itself and whose reader had
\* left on the end of the stream has joined both threads
C30_Witness ==
    /\ cpc = "ff_sentinel" /\ ~dropping /\ ~stopped
    /\ child = "None" /\ rpc = "none" /\ mpc = "none" /\ nextFrame > 1
    /\ events # << >> /\ events[Len(events)] = ErrEv("Ffmpeg", "Other")

\* ------------------------------------------------------------------ C31
\* a step that spawns a child process, a reader thread or a monitor thread
SpawnStep ==
    \/ live'.child > live.child \/ live'.reader > live.reader
    \/ live'.monitor > live.monitor

\* C31: whatever start() and stop() calls are made on the ffmpeg driver, at
\* most one child process, one reader thread and one monitor thread exist, and
\* a process exists exactly while the driver holds a child handle; while a
\* handle is held (the child running or exited) and no stop() is in progress
\* nothing is spawned and a start() returns Ok; a step that spawns is a
\* start() that finds no process and no thread left, the earlier ones having
\* been reaped and joined by stop(), and it creates one of each.
C31_OneOfEach ==
    /\ [](live.child <= 1 /\ live.reader <= 1 /\ live.monitor <= 1)
    /\ [](live.child = (IF child = "None" THEN 0 ELSE 1))
    /\ [](live.reader = (IF rpc = "none" THEN 0 ELSE 1))
    /\ [](live.monitor = (IF mpc = "none" THEN 0 ELSE 1))
    /\ [][(child # "None" /\ cpc = "idle" /\ cpc' = "idle") =>
            /\ live' = live /\ ff_stop' = ff_stop /\ child' \in {child, "Exited"}
            /\ start_r' # start_r => start_r' = "Ok"]_vars
    /\ [][SpawnStep =>
            /\ StartStep
            /\ live = [child |-> 0, reader |-> 0, monitor |-> 0]
            /\ child = "None" /\ rpc = "none" /\ mpc = "none"
            /\ live' = [child |-> 1, reader |-> 1, monitor |-> 1]]_vars

\* a driver that delivered a frame, was stopped and was started again: one
\* child, one reader and one monitor exist, those of the second start()
C31_Witness ==
    /\ stopped /\ cpc = "idle" /\ child = "Running" /\ rpc = "read"
    /\ live = [child |-> 1, reader |-> 1, monitor |-> 1]
    /\ outcome[1] = "Ok" /\ start_r = "Ok"

\* ------------------------------------------------------------------ C32
\* the frames that were enqueued and that the worker never received
Unreceived == Enqueued \ Range(taken)

\* C32: the stop flag, once set, stays set; with the flag set the worker
\* begins at most one dispatch cycle before it exits, the one of a receive it
\* had entered before the flag was set, and the head of the loop leads only
\* to the exit; the step in which the worker exits empties the queue,
\* invokes no sink and puts on the event channel nothing but its attempt at
\* Stopped; a frame that was in the queue then is never received, never given
\* to a sink, and no event was ever attempted for it.
C32_StopDiscards ==
    /\ [](afterFlag <= 1)
    /\ [][/\ stop => stop'
          /\ (stop /\ wpc' = "recv") => wpc = "recv"
          /\ (stop /\ wpc = "loop" /\ wpc' # "loop") => wpc' = "exit"
          /\ (stop /\ wpc = "recv" /\ wpc' = "cycle") => afterFlag = 0
          /\ (wpc = "exit" /\ wpc' # "exit") =>
                /\ queue' = << >> /\ ~rxAlive' /\ log' = log /\ taken' = taken
                /\ events' = Emitted("Stopped")
                /\ nDrop' = nDrop /\ nClosed' = nClosed /\ evres' = evres]_vars
    /\ [](wpc = "done" =>
            \A f \in Unreceived :
                /\ \A k \in SinkIds : f \notin Range(log[k])
                /\ evres[f] = "none")
    /\ [][wpc = "done" => (taken' = taken /\ log' = log)]_vars

\* the worker has run one cycle it began after the flag was set and is about
\* to exit while a frame is still in the queue
C32_Witness ==
    /\ stop /\ wpc = "exit" /\ afterFlag = 1 /\ QueuedFrames # {}
    /\ log[1] # << >>

\* ------------------------------------------------------------------ C33
\* a Camera::stop() has returned and the driver of the camera, still open,
\* holds a child again: Camera::start() was called after the stop
Restarted == stopped /\ cam = "open" /\ child # "None"

\* C33: once a Camera::stop() has returned, the worker is gone for good, the
\* frame channel is disconnected and empty, and no step, a later
\* Camera::start() and everything the restarted driver does included, invokes
\* a sink, receives or enqueues a frame; every submission completed from
\* then on is rejected as disconnected and followed by one attempt to place
\* Error(Closed) on the event channel, and by nothing else; the frames that
\* were enqueued are all older than the ones rejected as disconnected.
C33_StoppedTerminal ==
    /\ [](stopped => wpc = "done" /\ ~rxAlive /\ queue = << >> /\ cur = NoMsg)
    /\ [][stopped =>
            /\ log' = log /\ taken' = taken /\ queue' = << >> /\ wpc' = "done"
            /\ Enqueued' = Enqueued /\ RejectedFull' = RejectedFull /\ nDrop' = nDrop
            /\ (rpc = "send" /\ rpc' # "send") =>
                  outcome'[rframe] = "Disconnected" /\ rpc' = "report"
            /\ (rpc = "report" /\ rpc' # "report") =>
                  /\ outcome[rframe] = "Disconnected"
                  /\ evres'[rframe] = IF EventFits THEN "placed" ELSE "lost"
                  /\ events' = IF EventFits
                                 THEN Append(events, ErrEv("Ffmpeg", "Closed"))
                                 ELSE events]_vars
    /\ [](Restarted =>
            \A f \in Submitted :
                outcome[f] = "Ok" => \A g \in RejectedClosed : f < g)

\* a camera with a sink was stopped after a delivery and started again; the
\* restarted reader has had two frames rejected as disconnected, the sink has
\* received nothing since
C33_Witness ==
    /\ Restarted /\ child = "Running" /\ start_r = "Ok" /\ cpc = "idle"
    /\ Len(sinks) = 1 /\ log[1] = << 1 >> /\ log = frozen
    /\ outcome[2] = "Disconnected" /\ outcome[3] = "Disconnected"
    /\ evres[2] # "none" /\ evres[3] # "none"

\* ------------------------------------------------------------------ C34
\* how many times the queue accepted frame f
Accepted(f) == IF outcome[f] = "Ok" THEN 1 ELSE 0

\* C34: each sink has been invoked with a frame at most as many times as the
\* queue accepted it, which is once or never, so a frame rejected as Full
\* (FrameDropped) or as Disconnected (Closed) is in no sink's log; a frame is
\* received at most once and only if it was accepted, and is never both
\* received and still queued; and a step that invokes a sink invokes the sink
\* the cycle has reached, with the frame the worker received for the cycle.
C34_OnlyEnqueued ==
    /\ [](\A k \in SinkIds : \A f \in Frames : Count(f, log[k]) <= Accepted(f))
    /\ [](\A k \in SinkIds : Range(log[k]) \subseteq Range(taken))
    /\ [](\A f \in Frames : Places(f) <= Accepted(f))
    /\ [][\A k \in SinkIds :
             log'[k] # log[k] =>
                /\ wpc = "cycle" /\ k = SinkAt(idx)
                /\ log'[k] = Append(log[k], Received)
                /\ Count(Received, log[k]) = 0]_vars

\* both sinks have received frame 1 once; frame 2 was rejected by the full
\* queue and frame 3 by the disconnected one, each reported, neither delivered
C34_Witness ==
    /\ log[1] = << 1 >> /\ log[2] = << 1 >>
    /\ outcome[2] = "Full" /\ evres[2] = "placed"
    /\ outcome[3] = "Disconnected" /\ evres[3] = "placed"

RowBytes(f) == f.width * bytes_per_pixel(f.pixel_format)
MinBytes(f) == f.stride * f.height

\* C36 as stated: a frame that validate() accepts has a stride of at least
\* the true width * bytes_per_pixel and a buffer of at least the true
\* stride * height, also when a product exceeds the integer it is computed in.
C36_Original ==
    valid = "true" =>
        frame.stride >= RowBytes(frame) /\ frame.len >= MinBytes(frame)

\* C36, what validate() does: it rejects every frame whose buffer is shorter
\* than the true stride * height, saturated or not, and every frame whose
\* stride is smaller than a row that fits a u32; on a target whose usize is
\* as wide as u32 it rejects every frame the claim names; where usize is
\* wider, a frame whose row exceeds u32::MAX is accepted when its stride is
\* u32::MAX and its buffer is long enough.
C36_RejectsUnlessRowSaturates ==
    valid # "none" =>
        /\ frame.len < MinBytes(frame) => valid = "false"
        /\ (frame.stride < RowBytes(frame) /\ RowBytes(frame) <= U32Max)
              => valid = "false"
        /\ (frame.stride < RowBytes(frame) /\ usize_bits = U32Bits)
              => valid = "false"
        /\ (frame.stride < RowBytes(frame) /\ valid = "true") =>
              /\ RowBytes(frame) > U32Max /\ frame.stride = U32Max
              /\ usize_bits > U32Bits
        /\ (/\ RowBytes(frame) > U32Max /\ frame.stride = U32Max /\ frame.height # 0
            /\ frame.len >= MinBytes(frame)) => valid = "true"

\* validate() has accepted a Bgra8 frame of the largest height tried whose
\* buffer is exactly stride * height and whose rows do not fit the stride
C36_Witness ==
    /\ valid = "true" /\ frame.pixel_format = "Bgra8" /\ frame.height = MaxHeight
    /\ frame.len = MinBytes(frame) /\ frame.stride < RowBytes(frame)

====
